---- MODULE Spec2Model ----
(***************************************************************************)
(* qping: the concurrent probe scheduler of main() (src/src/main.cpp), the  *)
(* target enumerator enumerate_targets() and the range compressor          *)
(* compress_ip_ranges() (src/src/target.cpp).                              *)
(*                                                                         *)
(* Spec      the scheduler: W worker threads, the main driver and the      *)
(*           console control handler, interleaved at the granularity of    *)
(*           their atomic operations.                                      *)
(*           The command line has no -4 and no -6, its targets are IPv4.   *)
(* ForcedSpec  the scheduler under -4 or -6, on targets of both families.  *)
(* FairSpec  Spec with the fairness an OS scheduler gives the threads.     *)
(* MutexFairSpec  the same, with print_mtx granted to a worker that waits. *)
(* StatsFairSpec  FairSpec, with print_mtx granted to the waiting driver.  *)
(* EnumSpec  one call of enumerate_targets on a token and a cap.           *)
(* CompressSpec  one call of compress_ip_ranges on a list of addresses.    *)
(***************************************************************************)
EXTENDS Integers, Sequences, FiniteSets, TLC

\* ------------------------------------------------------------------ bounds
MaxN == 2          \* targets in the list
MaxConc == 2       \* --concurrency values 1..MaxConc
MaxK == 2          \* repetition counts 0..MaxK (0 is unbounded mode, -t)
MaxSent == 2       \* unbounded mode: no new iteration once a counter is here
MaxRounds == 2     \* rr_idx is exact for its first N * MaxRounds values
MaxToks == 2       \* target tokens on the command line: 1..MaxToks
MaxHostsDefault == 1   \* MAX_HOSTS_DEFAULT (65536), scaled to the model

Workers == 1..MaxConc

VARIABLES
    all_count,    \* all_targets.size()
    N,            \* size_t N = all_targets.size(); 0 before
    per_target,   \* count_per_target (0: unbounded)
    worker_count, \* min(max(1, concurrency), N); 0 before it is computed
    force,        \* --force
    concurrency,  \* --concurrency
    force_ipv4, force_ipv6,   \* -4, -6
    tok_af,       \* per token not yet enumerated: the family of the addresses
                  \* it stands for (a literal's own, a host name's as resolved)
    family,       \* get_address_family of each entry of all_targets
    toks_left,    \* tokens not yet enumerated
    tokv,         \* what the token enumerated last came to
    stop_flag, show_stats, print_mtx, rr_idx,
    sent, recv,   \* stats[i].sent, stats[i].recv
    wpc, widx, wt,        \* per worker: position, idx, scan index t
    mpc, mi,              \* main driver: position, loop index
    ts, tr,               \* intermediate statistics sums
    total_sent, total_recv, online_ips, failed_ips, exit_code,
    lost,                 \* the lost column of the rows of the final report
    ctrl_c,               \* CTRL_C_EVENT has been handled
    admitted, pinged, lines,  \* per target: draws admitted, echo calls
                              \* returned, outcome lines written
    echoed,               \* per target: calls of ping_ipv4 or ping_ipv6 made
    draw_log,             \* the values and indices drawn while rr_idx is exact
    after_stop,           \* per worker: draws made with the stop flag set
    tin,                  \* enumerate_targets: how the token was composed
    tok, max_hosts,       \* enumerate_targets: arguments
    out, out0,            \* the output list now, and as it was at the call
    ret, epc,             \* the return value; "call", "loop", then "done"
    lp,                   \* the locals of the loop the call is in
    cin,                  \* compress_ip_ranges: how the list was composed
    ips, result, cpc      \* its argument, its return value, "call"/"done"

vars == <<all_count, N, per_target, worker_count, force, toks_left, tokv,
          concurrency, force_ipv4, force_ipv6, tok_af, family, echoed,
          stop_flag, show_stats, print_mtx, rr_idx,
          sent, recv, wpc, widx, wt, mpc, mi, ts, tr,
          total_sent, total_recv, online_ips, failed_ips, lost, exit_code,
          ctrl_c,
          admitted, pinged, lines, draw_log, after_stop,
          tin, tok, max_hosts, out, out0, ret, epc, lp, cin, ips, result, cpc>>

schedVars == <<all_count, N, per_target, worker_count, force, toks_left, tokv,
               concurrency, force_ipv4, force_ipv6, tok_af, family, echoed,
               stop_flag, show_stats, print_mtx,
               rr_idx, sent, recv, wpc, widx, wt, mpc, mi, ts, tr,
               total_sent, total_recv, online_ips, failed_ips, lost, exit_code,
               ctrl_c,
               admitted, pinged, lines, draw_log, after_stop>>
enumVars == <<tin, tok, max_hosts, out, out0, ret, epc, lp>>
compVars == <<cin, ips, result, cpc>>

cfgVars == <<all_count, N, per_target, worker_count, force, toks_left, tokv,
             concurrency, force_ipv4, force_ipv6, tok_af, family>>
reportVars == <<total_sent, total_recv, online_ips, failed_ips, lost, exit_code>>
mainVars == <<mpc, mi, ts, tr>>
countVars == <<admitted, pinged, lines, echoed>>
drawVars == <<draw_log, after_stop>>

Min(a, b) == IF a < b THEN a ELSE b
Max(a, b) == IF a > b THEN a ELSE b

Targets == 0..(N - 1)

\* faulty variant: the count is not held to the number of targets
WorkerCountUncapped(conc, n) == Max(1, conc)

\* size_t worker_count = std::min<size_t>(std::max<int>(1, concurrency), N);
WorkerCount(conc, n) == Min(Max(1, conc), n)

\* What a token comes to: a host name (kind "host") resolves to got
\* addresses of the requested family; any other token (kind "literal") goes
\* to enumerate_targets, which returns ok with got addresses in gen.  kept
\* of them are not in the exclude set.  af is the family of the addresses.
NoToken ==
    [kind |-> "none", ok |-> FALSE, got |-> 0, kept |-> 0, af |-> "AF_INET"]

Families == {"AF_INET", "AF_INET6"}

TokenOutcomes(room) ==
    {[kind |-> "host", ok |-> TRUE, got |-> g, kept |-> k, af |-> a] :
        g \in 0..Min(1, room), k \in 0..1, a \in Families}
    \cup {[kind |-> "literal", ok |-> o, got |-> g, kept |-> k, af |-> a] :
             o \in BOOLEAN, g \in 0..room, k \in 0..room, a \in Families}

\* the addresses a host name resolves to are filtered by the forced family
\* (ip.find(':')), so that none of the other family is left; the tokens
\* handed to enumerate_targets are not.  An IPv6 token is a single address.
TokenFamily(t, af) ==
    /\ t.af = af
    /\ t.kind = "host" /\ force_ipv6 /\ af = "AF_INET" => t.got = 0
    /\ t.kind = "host" /\ force_ipv4 /\ af = "AF_INET6" => t.got = 0
    /\ af = "AF_INET6" => t.got <= 1

\* all_targets.push_back(ip) for the kept addresses of a token
Pushed(list, t) == list \o [j \in 1..t.kept |-> t.af]

\* the state of main() when it starts to enumerate the tokens, apart from
\* the family options and the families of the tokens
SchedStart ==
    /\ all_count = 0
    /\ N = 0
    /\ per_target \in 0..MaxK
    /\ worker_count = 0
    /\ force \in BOOLEAN
    /\ concurrency \in 1..MaxConc
    /\ family = <<>>
    /\ toks_left \in 1..MaxToks
    /\ tokv = NoToken
    /\ stop_flag = FALSE
    /\ show_stats = FALSE
    /\ print_mtx = <<"free">>
    /\ rr_idx = 0
    /\ sent = [i \in Targets |-> 0]
    /\ recv = [i \in Targets |-> 0]
    /\ wpc = [w \in Workers |-> "unborn"]
    /\ widx = [w \in Workers |-> 0]
    /\ wt = [w \in Workers |-> 0]
    /\ mpc = "tokens"
    /\ mi = 0
    /\ ts = 0
    /\ tr = 0
    /\ total_sent = 0
    /\ total_recv = 0
    /\ online_ips = <<>>
    /\ failed_ips = <<>>
    /\ lost = <<>>
    /\ exit_code = -1
    /\ ctrl_c = FALSE
    /\ admitted = [i \in Targets |-> 0]
    /\ pinged = [i \in Targets |-> 0]
    /\ lines = [i \in Targets |-> 0]
    /\ echoed = [i \in Targets |-> 0]
    /\ draw_log = <<>>
    /\ after_stop = [w \in Workers |-> 0]

\* a command line without -4 and -6, its tokens IPv4
SchedInit ==
    /\ SchedStart
    /\ force_ipv4 = FALSE
    /\ force_ipv6 = FALSE
    /\ tok_af = [j \in 1..toks_left |-> "AF_INET"]

\* a command line with -4 or -6 (the later of the two options wins), its
\* tokens of either family
ForcedInit ==
    /\ SchedStart
    /\ force_ipv4 \in BOOLEAN
    /\ force_ipv6 = ~force_ipv4
    /\ tok_af \in [1..toks_left -> Families]

\* ----------------------------------------------------------- worker lambda

\* faulty variant: the loop condition does not read stop_flag
LoopTopIgnoresStop(w) ==
    /\ wpc[w] = "top"
    /\ per_target > 0 \/ \A i \in Targets : sent[i] < MaxSent
    /\ wpc' = [wpc EXCEPT ![w] = "draw"]
    /\ UNCHANGED <<cfgVars, stop_flag, show_stats, print_mtx, rr_idx, sent, recv,
                   widx, wt, mainVars, reportVars, ctrl_c, countVars, drawVars>>

\* while (!stop_flag.load()).  In unbounded mode the counters grow without
\* end; the model starts no further iteration once one has reached MaxSent.
LoopTop(w) ==
    /\ wpc[w] = "top"
    /\ stop_flag \/ per_target > 0 \/ \A i \in Targets : sent[i] < MaxSent
    /\ wpc' = [wpc EXCEPT ![w] = IF stop_flag THEN "exited" ELSE "draw"]
    /\ UNCHANGED <<cfgVars, stop_flag, show_stats, print_mtx, rr_idx, sent, recv,
                   widx, wt, mainVars, reportVars, ctrl_c, countVars, drawVars>>

\* rr_idx after a fetch_add(1) that returned v.  The values below
\* N * MaxRounds are exact; above, the counter cycles through the N values that
\* follow, which leaves rr_idx % N as it is in the program.
NextIndex(v) == IF v + 1 < N * (MaxRounds + 1) THEN v + 1 ELSE N * MaxRounds

\* the draw recorded, as long as rr_idx is exact
Logged(v, idx) ==
    IF v < N * MaxRounds THEN Append(draw_log, <<v, idx>>) ELSE <<>>

\* another draw of w, made with the stop flag set or not
Counted(w) ==
    [after_stop EXCEPT ![w] = IF stop_flag THEN Min(2, @ + 1) ELSE @]

\* faulty variant: the counter is read and written back in two steps, so the
\* value read may be the one another worker has read already
DrawNotAtomic(w) ==
    /\ wpc[w] = "draw"
    /\ \E v \in Max(0, rr_idx - 1)..rr_idx :
         /\ widx' = [widx EXCEPT ![w] = v % N]
         /\ rr_idx' = NextIndex(v)
         /\ draw_log' = Logged(v, v % N)
    /\ after_stop' = Counted(w)
    /\ wpc' = [wpc EXCEPT ![w] = "admit"]
    /\ UNCHANGED <<cfgVars, stop_flag, show_stats, print_mtx, sent, recv,
                   wt, mainVars, reportVars, ctrl_c, countVars>>

\* faulty variant: the counter is not advanced
DrawKeepsIndex(w) ==
    /\ wpc[w] = "draw"
    /\ widx' = [widx EXCEPT ![w] = rr_idx % N]
    /\ after_stop' = Counted(w)
    /\ wpc' = [wpc EXCEPT ![w] = "admit"]
    /\ UNCHANGED <<cfgVars, stop_flag, show_stats, print_mtx, rr_idx, sent, recv,
                   wt, mainVars, reportVars, ctrl_c, countVars, draw_log>>

\* size_t idx = rr_idx.fetch_add(1) % N;
Draw(w) ==
    /\ wpc[w] = "draw"
    /\ widx' = [widx EXCEPT ![w] = rr_idx % N]
    /\ rr_idx' = NextIndex(rr_idx)
    /\ draw_log' = Logged(rr_idx, rr_idx % N)
    /\ after_stop' = Counted(w)
    /\ wpc' = [wpc EXCEPT ![w] = "admit"]
    /\ UNCHANGED <<cfgVars, stop_flag, show_stats, print_mtx, sent, recv,
                   wt, mainVars, reportVars, ctrl_c, countVars>>

\* faulty variant: the admission test is off by one
OverBudgetOffByOne(prev, k) == prev > k

\* prev >= per_target: the draw is over budget
OverBudget(prev, k) == prev >= k

\* the draw of w is admitted: w goes on to the echo call
Admitted(w, over) ==
    /\ wpc' = [wpc EXCEPT ![w] = IF over THEN "revert" ELSE "ping"]
    /\ admitted' = IF over THEN admitted ELSE [admitted EXCEPT ![widx[w]] = @ + 1]
    /\ UNCHANGED <<cfgVars, stop_flag, show_stats, print_mtx, rr_idx, recv,
                   widx, wt, mainVars, reportVars, ctrl_c, pinged, lines, echoed,
                   drawVars>>

\* faulty variant: the unbounded branch forgets its fetch_add
AdmitForgetsUnbounded(w) ==
    /\ wpc[w] = "admit"
    /\ sent' = IF per_target > 0 THEN [sent EXCEPT ![widx[w]] = @ + 1] ELSE sent
    /\ Admitted(w, per_target > 0 /\ OverBudget(sent[widx[w]], per_target))

\* faulty variant: the counter is read, tested and incremented in separate
\* steps, so the value tested may be an earlier one
AdmitNotAtomic(w) ==
    /\ wpc[w] = "admit"
    /\ sent' = [sent EXCEPT ![widx[w]] = @ + 1]
    /\ \E prev \in Max(0, sent[widx[w]] - 1)..sent[widx[w]] :
         Admitted(w, per_target > 0 /\ OverBudget(prev, per_target))

\* faulty variant: the budget test is made in unbounded mode as well
AdmitTestsUnbounded(w) ==
    /\ wpc[w] = "admit"
    /\ sent' = [sent EXCEPT ![widx[w]] = @ + 1]
    /\ Admitted(w, OverBudget(sent[widx[w]], per_target))

\* uint64_t prev = stats[idx].sent.fetch_add(1); if ((int)prev >= per_target) ...
\* else (unbounded): stats[idx].sent.fetch_add(1);
\* (the counters of the model stay far below the range of int)
Admit(w) ==
    /\ wpc[w] = "admit"
    /\ sent' = [sent EXCEPT ![widx[w]] = @ + 1]
    /\ Admitted(w, per_target > 0 /\ OverBudget(sent[widx[w]], per_target))

\* faulty variant: the over-budget increment is not taken back
RevertKeepsCount(w) ==
    /\ wpc[w] = "revert"
    /\ wpc' = [wpc EXCEPT ![w] = "scan_retry"]
    /\ UNCHANGED <<cfgVars, stop_flag, show_stats, print_mtx, rr_idx, sent, recv,
                   widx, wt, mainVars, reportVars, ctrl_c, countVars, drawVars>>

\* stats[idx].sent.fetch_sub(1); then the all_done scan starts at t = 0
Revert(w) ==
    /\ wpc[w] = "revert"
    /\ sent' = [sent EXCEPT ![widx[w]] = @ - 1]
    /\ wpc' = [wpc EXCEPT ![w] = "scan_retry"]
    /\ UNCHANGED <<cfgVars, stop_flag, show_stats, print_mtx, rr_idx, recv,
                   widx, wt, mainVars, reportVars, ctrl_c, countVars, drawVars>>

\* One iteration of: for (t...) if ((int)stats[t].sent.load() < per_target)
\* { all_done = false; break; }.  at is the position of the scan, found the
\* position after a scan that saw every target done, notdone the position
\* after one that did not (the sleep that follows changes no state).  The
\* locals idx and t are dead once the scan ends and are zeroed.
ScanStep(w, at, found, notdone) ==
    /\ wpc[w] = at
    /\ IF sent[wt[w]] < per_target
       THEN /\ wpc' = [wpc EXCEPT ![w] = notdone]
            /\ wt' = [wt EXCEPT ![w] = 0]
            /\ widx' = [widx EXCEPT ![w] = 0]
       ELSE /\ wt' = [wt EXCEPT ![w] = IF wt[w] + 1 = N THEN 0 ELSE @ + 1]
            /\ wpc' = [wpc EXCEPT ![w] = IF wt[w] + 1 = N THEN found ELSE at]
            /\ widx' = [widx EXCEPT ![w] = 0]
    /\ UNCHANGED <<cfgVars, stop_flag, show_stats, print_mtx, rr_idx, sent, recv,
                   mainVars, reportVars, ctrl_c, countVars, drawVars>>

\* faulty variant: continue goes on without the test of the loop condition
ScanRetrySkipsLoopTest(w) == ScanStep(w, "scan_retry", "set_stop", "draw")

\* the scan of the over-budget path; not done: sleep 10 ms, continue
ScanRetry(w) == ScanStep(w, "scan_retry", "set_stop", "top")

\* if (all_done) { stop_flag.store(true); break; }
SetStop(w) ==
    /\ wpc[w] = "set_stop"
    /\ stop_flag' = TRUE
    /\ wpc' = [wpc EXCEPT ![w] = "exited"]
    /\ UNCHANGED <<cfgVars, show_stats, print_mtx, rr_idx, sent, recv,
                   widx, wt, mainVars, reportVars, ctrl_c, countVars, drawVars>>

\* int af = get_address_family(all_targets[idx]);
FamilyOf(i) == family[i + 1]

\* faulty variant: the forced family is not looked at
EchoCalledIgnoresForce(af) == af \in Families

\* if (af == AF_INET && !force_ipv6) ping_ipv4 else if (af == AF_INET6 &&
\* !force_ipv4) ping_ipv6: one of the echo primitives is called
EchoCalled(af) ==
    \/ af = "AF_INET" /\ ~force_ipv6
    \/ af = "AF_INET6" /\ ~force_ipv4

\* PingResult result; result = ping_ipv4/ping_ipv6(target, opts); if
\* (result.success) stats[idx].recv.fetch_add(1);  The echo call is in flight
\* while the worker is at "ping"; its outcome is the environment's choice.
\* With no call made, result.success keeps its default, false.
Ping(w) ==
    /\ wpc[w] = "ping"
    /\ \E success \in BOOLEAN :
         /\ ~EchoCalled(FamilyOf(widx[w])) => ~success
         /\ recv' = IF success THEN [recv EXCEPT ![widx[w]] = @ + 1] ELSE recv
    /\ echoed' = IF EchoCalled(FamilyOf(widx[w]))
                 THEN [echoed EXCEPT ![widx[w]] = @ + 1] ELSE echoed
    /\ pinged' = [pinged EXCEPT ![widx[w]] = @ + 1]
    /\ wpc' = [wpc EXCEPT ![w] = "print"]
    /\ UNCHANGED <<cfgVars, stop_flag, show_stats, print_mtx, rr_idx, sent,
                   widx, wt, mainVars, reportVars, ctrl_c, admitted, lines, drawVars>>

\* faulty variant: the output section is entered without the mutex being free
PrintLockDoesNotWait(w) ==
    /\ wpc[w] = "print"
    /\ print_mtx' = <<"worker", w>>
    /\ wpc' = [wpc EXCEPT ![w] = "printing"]
    /\ UNCHANGED <<cfgVars, stop_flag, show_stats, rr_idx, sent, recv,
                   widx, wt, mainVars, reportVars, ctrl_c, countVars, drawVars>>

\* std::lock_guard<std::mutex> lk(print_mtx);
PrintLock(w) ==
    /\ wpc[w] = "print"
    /\ print_mtx = <<"free">>
    /\ print_mtx' = <<"worker", w>>
    /\ wpc' = [wpc EXCEPT ![w] = "printing"]
    /\ UNCHANGED <<cfgVars, stop_flag, show_stats, rr_idx, sent, recv,
                   widx, wt, mainVars, reportVars, ctrl_c, countVars, drawVars>>

\* the outcome line is written; the guard goes out of scope
PrintUnlock(w) ==
    /\ wpc[w] = "printing"
    /\ print_mtx' = <<"free">>
    /\ wpc' = [wpc EXCEPT ![w] = IF per_target > 0 THEN "scan_done" ELSE "top"]
    /\ lines' = [lines EXCEPT ![widx[w]] = @ + 1]
    /\ widx' = [widx EXCEPT ![w] = 0]
    /\ UNCHANGED <<cfgVars, stop_flag, show_stats, rr_idx, sent, recv,
                   wt, mainVars, reportVars, ctrl_c, admitted, pinged, echoed,
                   drawVars>>

\* the scan after a probe; not done: sleep ping_interval, next iteration
ScanDone(w) == ScanStep(w, "scan_done", "set_stop", "top")

Worker(w) ==
    \/ LoopTop(w) \/ Draw(w) \/ Admit(w) \/ Revert(w) \/ ScanRetry(w)
    \/ SetStop(w) \/ Ping(w) \/ PrintLock(w) \/ PrintUnlock(w) \/ ScanDone(w)

\* ------------------------------------------------------------- main driver

\* if (resolved_ips.empty()) return 2;  if (!enumerate_targets(...)) return 2;
FatalToken(t) == (t.kind = "host" /\ t.got = 0) \/ (t.kind = "literal" /\ ~t.ok)

\* the cap handed to enumerate_targets: force ? UINT_MAX : MAX_HOSTS_DEFAULT
\* (the model has no list above MaxN)
TokenCap(f, n) == IF f THEN MaxN - n ELSE Min(MaxHostsDefault, MaxN - n)

\* one iteration of for (auto& tok : tokens): the token is resolved or
\* enumerated; a fatal one ends the process with 2, any other adds what the
\* exclude set leaves of it to all_targets
EnumerateToken ==
    /\ mpc = "tokens"
    /\ toks_left > 0
    /\ \E t \in TokenOutcomes(TokenCap(force, all_count)) :
         /\ t.kept <= t.got
         /\ ~t.ok => t.got = 0 /\ t.kept = 0
         /\ TokenFamily(t, Head(tok_af))
         /\ tokv' = t
         /\ IF FatalToken(t)
            THEN /\ exit_code' = 2
                 /\ mpc' = "rejected"
                 /\ UNCHANGED <<all_count, toks_left, tok_af, family>>
            ELSE /\ all_count' = all_count + t.kept
                 /\ family' = Pushed(family, t)
                 /\ toks_left' = toks_left - 1
                 /\ tok_af' = Tail(tok_af)
                 /\ UNCHANGED <<exit_code, mpc>>
    /\ UNCHANGED <<N, per_target, worker_count, force, concurrency,
                   force_ipv4, force_ipv6, stop_flag, show_stats,
                   print_mtx, rr_idx, sent, recv, wpc, widx, wt, mi, ts, tr,
                   total_sent, total_recv, online_ips, failed_ips, lost, ctrl_c,
                   countVars, drawVars>>

\* faulty variant: the count is never held against the limit
OverLimitNever(f, n) == FALSE

\* if (!force && all_targets.size() > MAX_HOSTS_DEFAULT) return 2;
OverLimit(f, n) == ~f /\ n > MaxHostsDefault

\* after the loop: if (all_targets.empty()) return 2; the limit; then N,
\* stats(N), the flags, the console handler and worker_count are set up
CheckTargets ==
    /\ mpc = "tokens"
    /\ toks_left = 0
    /\ IF all_count = 0 \/ OverLimit(force, all_count)
       THEN /\ exit_code' = 2
            /\ mpc' = "rejected"
            /\ UNCHANGED <<N, worker_count, sent, recv, tokv, countVars>>
       ELSE /\ N' = all_count
            /\ worker_count' = WorkerCount(concurrency, all_count)
            /\ sent' = [i \in 0..(all_count - 1) |-> 0]
            /\ recv' = [i \in 0..(all_count - 1) |-> 0]
            /\ admitted' = [i \in 0..(all_count - 1) |-> 0]
            /\ pinged' = [i \in 0..(all_count - 1) |-> 0]
            /\ lines' = [i \in 0..(all_count - 1) |-> 0]
            /\ echoed' = [i \in 0..(all_count - 1) |-> 0]
            /\ tokv' = NoToken
            /\ mpc' = "spawn"
            /\ UNCHANGED exit_code
    /\ UNCHANGED <<all_count, per_target, force, concurrency,
                   force_ipv4, force_ipv6, tok_af, family, toks_left,
                   stop_flag, show_stats,
                   print_mtx, rr_idx, wpc, widx, wt, mi, ts, tr,
                   total_sent, total_recv, online_ips, failed_ips, lost, ctrl_c, drawVars>>

\* for (w < worker_count) workers.emplace_back(lambda)
Spawn ==
    /\ mpc = "spawn"
    /\ wpc' = [wpc EXCEPT ![mi + 1] = "top"]
    /\ mi' = IF mi + 1 = worker_count THEN 0 ELSE mi + 1
    /\ mpc' = IF mi + 1 = worker_count THEN "wait" ELSE "spawn"
    /\ UNCHANGED <<cfgVars, stop_flag, show_stats, print_mtx, rr_idx, sent, recv,
                   widx, wt, ts, tr, reportVars, ctrl_c, countVars, drawVars>>

\* while (!stop_flag.load())
MainWait ==
    /\ mpc = "wait"
    /\ mpc' = IF stop_flag THEN "join" ELSE "poll"
    /\ UNCHANGED <<cfgVars, stop_flag, show_stats, print_mtx, rr_idx, sent, recv,
                   wpc, widx, wt, mi, ts, tr, reportVars, ctrl_c, countVars, drawVars>>

\* if (show_stats.load()) ... else sleep 200 ms and loop
MainPoll ==
    /\ mpc = "poll"
    /\ mpc' = IF show_stats THEN "snap_lock" ELSE "wait"
    /\ UNCHANGED <<cfgVars, stop_flag, show_stats, print_mtx, rr_idx, sent, recv,
                   wpc, widx, wt, mi, ts, tr, reportVars, ctrl_c, countVars, drawVars>>

\* std::lock_guard<std::mutex> lk(print_mtx); uint64_t ts = 0, tr = 0;
SnapLock ==
    /\ mpc = "snap_lock"
    /\ print_mtx = <<"free">>
    /\ print_mtx' = <<"main">>
    /\ mi' = 0
    /\ ts' = 0
    /\ tr' = 0
    /\ mpc' = "snap_sent"
    /\ UNCHANGED <<cfgVars, stop_flag, show_stats, rr_idx, sent, recv,
                   wpc, widx, wt, reportVars, ctrl_c, countVars, drawVars>>

\* ts += stats[i].sent.load();
SnapSent ==
    /\ mpc = "snap_sent"
    /\ ts' = ts + sent[mi]
    /\ mpc' = "snap_recv"
    /\ UNCHANGED <<cfgVars, stop_flag, show_stats, print_mtx, rr_idx, sent, recv,
                   wpc, widx, wt, mi, tr, reportVars, ctrl_c, countVars, drawVars>>

\* tr += stats[i].recv.load(); ++i
SnapRecv ==
    /\ mpc = "snap_recv"
    /\ tr' = tr + recv[mi]
    /\ mi' = mi + 1
    /\ mpc' = IF mi + 1 = N THEN "snap_print" ELSE "snap_sent"
    /\ UNCHANGED <<cfgVars, stop_flag, show_stats, print_mtx, rr_idx, sent, recv,
                   wpc, widx, wt, ts, reportVars, ctrl_c, countVars, drawVars>>

\* faulty variant: the store goes to the other flag
SnapPrintResetsStop ==
    /\ mpc = "snap_print"
    /\ stop_flag' = FALSE
    /\ print_mtx' = <<"free">>
    /\ mi' = 0
    /\ ts' = 0
    /\ tr' = 0
    /\ mpc' = "wait"
    /\ UNCHANGED <<cfgVars, show_stats, rr_idx, sent, recv,
                   wpc, widx, wt, reportVars, ctrl_c, countVars, drawVars>>

\* faulty variant: the signal is not reset after the output
SnapPrintKeepsSignal ==
    /\ mpc = "snap_print"
    /\ print_mtx' = <<"free">>
    /\ mi' = 0
    /\ ts' = 0
    /\ tr' = 0
    /\ mpc' = "wait"
    /\ UNCHANGED <<cfgVars, stop_flag, show_stats, rr_idx, sent, recv,
                   wpc, widx, wt, reportVars, ctrl_c, countVars, drawVars>>

\* printf(ts, tr); show_stats.store(false); the guard goes out of scope;
\* sleep 200 ms
SnapPrint ==
    /\ mpc = "snap_print"
    /\ show_stats' = FALSE
    /\ print_mtx' = <<"free">>
    /\ mi' = 0
    /\ ts' = 0
    /\ tr' = 0
    /\ mpc' = "wait"
    /\ UNCHANGED <<cfgVars, stop_flag, rr_idx, sent, recv,
                   wpc, widx, wt, reportVars, ctrl_c, countVars, drawVars>>

\* faulty variant: the driver does not wait for the thread to end
JoinDoesNotWait ==
    /\ mpc = "join"
    /\ mi' = IF mi + 1 = worker_count THEN 0 ELSE mi + 1
    /\ mpc' = IF mi + 1 = worker_count THEN "report" ELSE "join"
    /\ UNCHANGED <<cfgVars, stop_flag, show_stats, print_mtx, rr_idx, sent, recv,
                   wpc, widx, wt, ts, tr, reportVars, ctrl_c, countVars, drawVars>>

\* for (auto& th : workers) th.join();  join() returns once the thread ended
Join ==
    /\ mpc = "join"
    /\ wpc[mi + 1] = "exited"
    /\ mi' = IF mi + 1 = worker_count THEN 0 ELSE mi + 1
    /\ mpc' = IF mi + 1 = worker_count THEN "report" ELSE "join"
    /\ UNCHANGED <<cfgVars, stop_flag, show_stats, print_mtx, rr_idx, sent, recv,
                   wpc, widx, wt, ts, tr, reportVars, ctrl_c, countVars, drawVars>>

\* uint64_t lost = (s > r) ? (s - r) : 0;
Lost(s, r) == IF s > r THEN s - r ELSE 0

\* faulty variant: a target without a reply counts as online
IsOnlineAdmitsZero(r) == r >= 0

\* if (r > 0) online_ips.push_back(...) else failed_ips.push_back(...)
IsOnline(r) == r > 0

\* one iteration of the final statistics loop over i
Report ==
    /\ mpc = "report"
    /\ total_sent' = total_sent + sent[mi]
    /\ total_recv' = total_recv + recv[mi]
    /\ lost' = Append(lost, Lost(sent[mi], recv[mi]))
    /\ IF IsOnline(recv[mi])
       THEN /\ online_ips' = Append(online_ips, mi)
            /\ failed_ips' = failed_ips
       ELSE /\ failed_ips' = Append(failed_ips, mi)
            /\ online_ips' = online_ips
    /\ mi' = mi + 1
    /\ mpc' = IF mi + 1 = N THEN "return" ELSE "report"
    /\ UNCHANGED <<cfgVars, stop_flag, show_stats, print_mtx, rr_idx, sent, recv,
                   wpc, widx, wt, ts, tr, exit_code, ctrl_c, countVars, drawVars>>

\* faulty variant: the comparison admits zero
ExitCodeAdmitsZero(total) == IF total >= 0 THEN 0 ELSE 1

\* return (total_recv > 0) ? 0 : 1;
ExitCode(total) == IF total > 0 THEN 0 ELSE 1

Return ==
    /\ mpc = "return"
    /\ exit_code' = ExitCode(total_recv)
    /\ mpc' = "done"
    /\ UNCHANGED <<cfgVars, stop_flag, show_stats, print_mtx, rr_idx, sent, recv,
                   wpc, widx, wt, mi, ts, tr, total_sent, total_recv,
                   online_ips, failed_ips, lost, ctrl_c, countVars, drawVars>>

\* --------------------------------------------------- win_console_handler

\* SetConsoleCtrlHandler(win_console_handler, TRUE) is called once the
\* targets are checked; the handler serves the events until the process ends
HandlerSet == mpc \notin {"tokens", "rejected", "done"}

\* case CTRL_C_EVENT: g_stop_ptr->store(true);
CtrlC ==
    /\ HandlerSet
    /\ stop_flag' = TRUE
    /\ ctrl_c' = TRUE
    /\ UNCHANGED <<cfgVars, show_stats, print_mtx, rr_idx, sent, recv,
                   wpc, widx, wt, mainVars, reportVars, countVars, drawVars>>

\* case CTRL_BREAK_EVENT: g_show_ptr->store(true);
CtrlBreak ==
    /\ HandlerSet
    /\ show_stats' = TRUE
    /\ UNCHANGED <<cfgVars, stop_flag, print_mtx, rr_idx, sent, recv,
                   wpc, widx, wt, mainVars, reportVars, ctrl_c, countVars, drawVars>>

Main ==
    \/ EnumerateToken \/ CheckTargets
    \/ Spawn \/ MainWait \/ MainPoll \/ SnapLock \/ SnapSent \/ SnapRecv
    \/ SnapPrint \/ Join \/ Report \/ Return

WorkerStep(w) == Worker(w) /\ UNCHANGED <<enumVars, compVars>>
MainStep == Main /\ UNCHANGED <<enumVars, compVars>>
CtrlCStep == CtrlC /\ UNCHANGED <<enumVars, compVars>>
CtrlBreakStep == CtrlBreak /\ UNCHANGED <<enumVars, compVars>>

Next ==
    \/ \E w \in Workers : WorkerStep(w)
    \/ MainStep
    \/ CtrlCStep
    \/ CtrlBreakStep

\* =================================================== enumerate_targets
\* Strings are sequences of one-character strings; positions are 1-based and
\* 0 stands for std::string::npos.

MaxCap == 14       \* max_hosts values 0..MaxCap, and
WideCap == 600     \* one cap above every range of two /24 blocks

Digits == <<"0", "1", "2", "3", "4", "5", "6", "7", "8", "9">>
IsDigit(c) == \E k \in 1..Len(Digits) : Digits[k] = c
DigitVal(c) == (CHOOSE k \in 1..Len(Digits) : Digits[k] = c) - 1

\* s.find(c, start)
FindFrom(s, c, start) ==
    LET hits == {k \in start..Len(s) : s[k] = c}
    IN IF hits = {} THEN 0 ELSE CHOOSE k \in hits : \A j \in hits : k <= j

Find(s, c) == FindFrom(s, c, 1)

\* split(): the text after the last delimiter is a part only when not empty
RECURSIVE SplitFrom(_, _, _)
SplitFrom(s, delim, start) ==
    LET end == FindFrom(s, delim, start)
    IN IF end # 0
       THEN <<SubSeq(s, start, end - 1)>> \o SplitFrom(s, delim, end + 1)
       ELSE IF start <= Len(s) THEN <<SubSeq(s, start, Len(s))>> ELSE <<>>

Split(s, delim) == SplitFrom(s, delim, 1)

RECURSIVE DecValue(_)
DecValue(ds) ==
    IF ds = <<>> THEN 0
    ELSE DecValue(SubSeq(ds, 1, Len(ds) - 1)) * 10 + DigitVal(ds[Len(ds)])

\* parse_int(): strtol(str, &end, 10) takes an optional sign and digits; it
\* fails when no digit was read (end == str) or text is left (*end != 0).
\* The numerals of the model have at most four digits, so long never overflows.
ParseInt(s) ==
    LET signed == s # <<>> /\ s[1] \in {"+", "-"}
        body == IF signed THEN Tail(s) ELSE s
        ok == body # <<>> /\ \A k \in 1..Len(body) : IsDigit(body[k])
    IN [ok |-> ok,
        val |-> IF ~ok THEN 0
                ELSE IF signed /\ s[1] = "-" THEN 0 - DecValue(body)
                ELSE DecValue(body)]

\* is_ipv6_address(): s.find(':') != npos
IsIPv6Address(s) == Find(s, ":") # 0

\* is_valid_ipv6_address(): InetPtonA(AF_INET6) of the platform; of the
\* literals the model composes, it accepts those of hex digits and colons
\* only.
IsValidIPv6Address(s) ==
    /\ Find(s, ":") # 0
    /\ \A k \in 1..Len(s) : s[k] = ":" \/ IsDigit(s[k])

\* every field between delimiters, empty ones kept
RECURSIVE Fields(_, _)
Fields(s, delim) ==
    LET k == Find(s, delim)
    IN IF k = 0 THEN <<s>>
       ELSE <<SubSeq(s, 1, k - 1)>> \o Fields(SubSeq(s, k + 1, Len(s)), delim)

\* A 32-bit unsigned value is the pair <<high 16 bits, low 16 bits>>.
Half == 65536

U32FromOctets(a, b, c, d) == <<a * 256 + b, c * 256 + d>>

RECURSIVE BitAnd(_, _, _)
BitAnd(a, b, bits) ==
    IF bits = 0 THEN 0
    ELSE 2 * BitAnd(a \div 2, b \div 2, bits - 1) + (a % 2) * (b % 2)

RECURSIVE BitOr(_, _, _)
BitOr(a, b, bits) ==
    IF bits = 0 THEN 0
    ELSE 2 * BitOr(a \div 2, b \div 2, bits - 1)
         + (IF a % 2 = 1 \/ b % 2 = 1 THEN 1 ELSE 0)

U32And(x, y) == <<BitAnd(x[1], y[1], 16), BitAnd(x[2], y[2], 16)>>
U32Or(x, y) == <<BitOr(x[1], y[1], 16), BitOr(x[2], y[2], 16)>>
U32Not(x) == <<Half - 1 - x[1], Half - 1 - x[2]>>

\* x << s on 32 bits, 0 <= s < 32
U32Shl(x, s) ==
    IF s < 16
    THEN <<(x[1] % (2 ^ (16 - s))) * (2 ^ s) + x[2] \div (2 ^ (16 - s)),
           (x[2] % (2 ^ (16 - s))) * (2 ^ s)>>
    ELSE <<(x[2] % (2 ^ (32 - s))) * (2 ^ (s - 16)), 0>>

\* ++cur and x - 1 on uint32_t: both wrap around
U32Inc(x) ==
    IF x[2] + 1 < Half THEN <<x[1], x[2] + 1>> ELSE <<(x[1] + 1) % Half, 0>>
U32Dec(x) ==
    IF x[2] > 0 THEN <<x[1], x[2] - 1>> ELSE <<(x[1] + Half - 1) % Half, Half - 1>>

U32Le(x, y) == x[1] < y[1] \/ (x[1] = y[1] /\ x[2] <= y[2])

\* InetPtonA(AF_INET): strict dotted decimal, four fields of one to three
\* digits, each at most 255, no leading zero; the value is ntohl(S_addr).
ValidOctetText(p) ==
    /\ Len(p) \in 1..3
    /\ \A k \in 1..Len(p) : IsDigit(p[k])
    /\ Len(p) > 1 => p[1] # "0"
    /\ DecValue(p) <= 255

InetPton4(s) ==
    LET f == Fields(s, ".")
        ok == Len(f) = 4 /\ \A j \in 1..4 : ValidOctetText(f[j])
    IN [ok |-> ok,
        ip |-> IF ok THEN U32FromOctets(DecValue(f[1]), DecValue(f[2]),
                                        DecValue(f[3]), DecValue(f[4]))
               ELSE <<0, 0>>]

\* is_valid_ipv4_address()
IsValidIPv4Address(s) == InetPton4(s).ok

\* printf's %d and %u
RECURSIVE FmtNat(_)
FmtNat(n) ==
    IF n < 10 THEN <<Digits[n + 1]>>
    ELSE FmtNat(n \div 10) \o <<Digits[(n % 10) + 1]>>

FmtInt(n) == IF n < 0 THEN <<"-">> \o FmtNat(0 - n) ELSE FmtNat(n)

\* snprintf(buf, sizeof(buf), "%d.%d.%d.%d", a, b, c, d)
FormatIPv4(a, b, c, d) ==
    FmtInt(a) \o <<".">> \o FmtInt(b) \o <<".">> \o FmtInt(c) \o <<".">> \o FmtInt(d)

\* ip_to_string()
IpToString(ip) ==
    FormatIPv4((ip[1] \div 256) % 256, ip[1] % 256,
               (ip[2] \div 256) % 256, ip[2] % 256)

InRange(v, lo, hi) == ~(v < lo \/ v > hi)

\* The locals of the loop a call is in: its kind, the leading octets, the
\* pieces of a comma list and the index of the current one, whether the
\* sub-range loop of a piece is running, the loop variable and its end, and
\* added.
NoLoop ==
    [kind |-> "none", base |-> <<>>, parts |-> <<>>, k |-> 0, inner |-> FALSE,
     cur |-> 0, end |-> 0, added |-> 0]

\* where a call stands: returned false, returned true, or inside a loop
Failed(o) == [pc |-> "done", ok |-> FALSE, out |-> o, lp |-> NoLoop]
Done(o) == [pc |-> "done", ok |-> TRUE, out |-> o, lp |-> NoLoop]
Loop(o, l) == [pc |-> "loop", ok |-> FALSE, out |-> o, lp |-> l]

\* uint32_t mask = (prefix == 0) ? 0 : (~0u << (32 - prefix));
CidrMask(prefix) ==
    IF prefix = 0 THEN <<0, 0>> ELSE U32Shl(<<Half - 1, Half - 1>>, 32 - prefix)

\* faulty variant: the network address is not excluded
CidrStartKeepsNetwork(prefix, network) == network

\* start = (prefix >= 31) ? network : network + 1
CidrStart(prefix, network) == IF prefix >= 31 THEN network ELSE U32Inc(network)

\* end = (prefix >= 31) ? broadcast : broadcast - 1
CidrEnd(prefix, broadcast) == IF prefix >= 31 THEN broadcast ELSE U32Dec(broadcast)

\* one iteration of
\* for (uint32_t cur = start; cur <= end && added < max_hosts; ++cur, ++added)
CidrLoop(l, cap, o) ==
    IF U32Le(l.cur, l.end) /\ l.added < cap
    THEN Loop(Append(o, IpToString(l.cur)),
              [l EXCEPT !.cur = U32Inc(@), !.added = @ + 1])
    ELSE Done(o)

\* the CIDR branch; slash is the position of '/'
EnumCidr(t, o, slash) ==
    LET ip_part == SubSeq(t, 1, slash - 1)
        prefix == ParseInt(SubSeq(t, slash + 1, Len(t)))
        addr == InetPton4(ip_part)
    IN IF ~prefix.ok \/ prefix.val < 0 \/ prefix.val > 32 THEN Failed(o)
       ELSE IF ~addr.ok THEN Failed(o)
       ELSE IF prefix.val = 32 THEN Done(Append(o, ip_part))
       ELSE LET mask == CidrMask(prefix.val)
                network == U32And(addr.ip, mask)
                broadcast == U32Or(network, U32Not(mask))
            IN Loop(o, [NoLoop EXCEPT !.kind = "cidr",
                                      !.cur = CidrStart(prefix.val, network),
                                      !.end = CidrEnd(prefix.val, broadcast)])

\* faulty variant: the loop leaves out d_end
OctetLoopStopsShort(l, cap) == l.cur < l.end /\ l.added < cap

\* for (int d = d_start; d <= d_end && added < max_hosts; ++d, ++added):
\* the condition, and the body with the increments
OctetLoopRuns(l, cap) == l.cur <= l.end /\ l.added < cap
OctetLoopBody(l, o) ==
    Loop(Append(o, FormatIPv4(l.base[1], l.base[2], l.base[3], l.cur)),
         [l EXCEPT !.cur = @ + 1, !.added = @ + 1])

\* one iteration of the loop of a.b.c.d-e
LastOctetLoop(l, cap, o) ==
    IF OctetLoopRuns(l, cap) THEN OctetLoopBody(l, o) ELSE Done(o)

\* a.b.c.d-e; parts has four elements and dash is the position of '-' in
\* the last
EnumLastOctetRange(parts, o, dash) ==
    LET last == parts[4]
        l == ParseInt(SubSeq(last, 1, dash - 1))
        r == ParseInt(SubSeq(last, dash + 1, Len(last)))
        a == ParseInt(parts[1])
        b == ParseInt(parts[2])
        c == ParseInt(parts[3])
    IN IF ~l.ok \/ ~r.ok \/ ~InRange(l.val, 0, 255) \/ ~InRange(r.val, 0, 255)
       THEN Failed(o)
       ELSE IF \/ ~a.ok \/ ~b.ok \/ ~c.ok
               \/ ~InRange(a.val, 0, 255) \/ ~InRange(b.val, 0, 255)
               \/ ~InRange(c.val, 0, 255)
       THEN Failed(o)
       ELSE Loop(o, [NoLoop EXCEPT !.kind = "last",
                                   !.base = <<a.val, b.val, c.val>>,
                                   !.cur = Min(l.val, r.val),
                                   !.end = Max(l.val, r.val)])

\* faulty variant: the inner loop runs to 255
ThirdOctetLoopTo255(l, cap, o) ==
    IF ~(l.base[3] <= l.end /\ l.added < cap) THEN Done(o)
    ELSE IF l.cur <= 255 /\ l.added < cap
    THEN Loop(Append(o, FormatIPv4(l.base[1], l.base[2], l.base[3], l.cur)),
              [l EXCEPT !.cur = @ + 1, !.added = @ + 1])
    ELSE Loop(o, [l EXCEPT !.base[3] = @ + 1, !.cur = 1])

\* for (c ...; c <= c_end && added < max_hosts; ++c)
\*   for (d = 1; d <= 254 && added < max_hosts; ++d, ++added)
\* one test of a loop condition with what follows it; base[3] is c, cur is d
\* and end is c_end
ThirdOctetLoop(l, cap, o) ==
    IF ~(l.base[3] <= l.end /\ l.added < cap) THEN Done(o)
    ELSE IF l.cur <= 254 /\ l.added < cap
    THEN Loop(Append(o, FormatIPv4(l.base[1], l.base[2], l.base[3], l.cur)),
              [l EXCEPT !.cur = @ + 1, !.added = @ + 1])
    ELSE Loop(o, [l EXCEPT !.base[3] = @ + 1, !.cur = 1])

\* a.b.c-e; parts has three elements and dash is the position of '-' in
\* the last
EnumThirdOctetRange(parts, o, dash) ==
    LET l == ParseInt(SubSeq(parts[3], 1, dash - 1))
        r == ParseInt(SubSeq(parts[3], dash + 1, Len(parts[3])))
        oct1 == ParseInt(parts[1])
        oct2 == ParseInt(parts[2])
    IN IF ~l.ok \/ ~r.ok \/ ~InRange(l.val, 0, 255) \/ ~InRange(r.val, 0, 255)
       THEN Failed(o)
       ELSE IF \/ ~oct1.ok \/ ~oct2.ok
               \/ ~InRange(oct1.val, 0, 255) \/ ~InRange(oct2.val, 0, 255)
       THEN Failed(o)
       ELSE Loop(o, [NoLoop EXCEPT !.kind = "third",
                                   !.base = <<oct1.val, oct2.val, Min(l.val, r.val)>>,
                                   !.cur = 1,
                                   !.end = Max(l.val, r.val)])

\* faulty variant: every piece gets the whole cap
NextPieceResetsAdded(l) ==
    [l EXCEPT !.k = @ + 1, !.inner = FALSE, !.cur = 0, !.end = 0, !.added = 0]

\* the for over d_parts moves on; added is declared outside it
NextPiece(l) == [l EXCEPT !.k = @ + 1, !.inner = FALSE, !.cur = 0, !.end = 0]

\* for (const auto& d_str : d_parts): one step on the piece k, or one
\* iteration of the loop of its sub-range; a piece that fails returns at
\* once, with out as it is then
ListLoop(l, cap, o) ==
    IF l.inner
    THEN IF OctetLoopRuns(l, cap) THEN OctetLoopBody(l, o)
         ELSE Loop(o, NextPiece(l))
    ELSE IF l.k > Len(l.parts) THEN Done(o)
    ELSE LET d_str == l.parts[l.k]
             dash_pos == Find(d_str, "-")
         IN IF d_str = <<>> THEN Loop(o, NextPiece(l))
            ELSE IF dash_pos # 0
            THEN LET lo == ParseInt(SubSeq(d_str, 1, dash_pos - 1))
                     hi == ParseInt(SubSeq(d_str, dash_pos + 1, Len(d_str)))
                 IN IF \/ ~lo.ok \/ ~hi.ok
                       \/ ~InRange(lo.val, 0, 255) \/ ~InRange(hi.val, 0, 255)
                    THEN Failed(o)
                    ELSE Loop(o, [l EXCEPT !.inner = TRUE,
                                           !.cur = Min(lo.val, hi.val),
                                           !.end = Max(lo.val, hi.val)])
            ELSE LET d == ParseInt(d_str)
                 IN IF ~d.ok \/ ~InRange(d.val, 0, 255) THEN Failed(o)
                    ELSE IF l.added < cap
                    THEN Loop(Append(o, FormatIPv4(l.base[1], l.base[2],
                                                   l.base[3], d.val)),
                              NextPiece([l EXCEPT !.added = @ + 1]))
                    ELSE Loop(o, NextPiece(l))

\* a.b.c.d1,d2,...; parts has four elements and the last holds a ','
EnumCommaList(parts, o) ==
    LET a == ParseInt(parts[1])
        b == ParseInt(parts[2])
        c == ParseInt(parts[3])
    IN IF \/ ~a.ok \/ ~b.ok \/ ~c.ok
          \/ ~InRange(a.val, 0, 255) \/ ~InRange(b.val, 0, 255)
          \/ ~InRange(c.val, 0, 255)
       THEN Failed(o)
       ELSE Loop(o, [NoLoop EXCEPT !.kind = "list",
                                   !.base = <<a.val, b.val, c.val>>,
                                   !.parts = Split(parts[4], ","),
                                   !.k = 1])

\* the single IPv4 literal
EnumSingle(t, o) == IF IsValidIPv4Address(t) THEN Done(Append(o, t)) ELSE Failed(o)

\* the comma-list block and what follows it
EnumListOrSingle(t, o) ==
    LET parts == Split(t, ".")
    IN IF Len(parts) = 4 /\ Find(parts[4], ",") # 0
       THEN EnumCommaList(parts, o)
       ELSE EnumSingle(t, o)

\* the range block: a branch that does not return falls through
EnumRangeOrLater(t, o) ==
    LET parts == Split(t, ".")
    IN IF Len(parts) = 4 /\ Find(parts[4], "-") # 0
       THEN EnumLastOctetRange(parts, o, Find(parts[4], "-"))
       ELSE IF Len(parts) = 3 /\ Find(parts[3], "-") # 0
       THEN EnumThirdOctetRange(parts, o, Find(parts[3], "-"))
       ELSE EnumListOrSingle(t, o)

\* bool enumerate_targets(tok, out, max_hosts) up to its return or to the
\* first test of a loop condition
EnumerateTargets(t, o) ==
    IF IsIPv6Address(t)
    THEN IF IsValidIPv6Address(t) THEN Done(Append(o, t)) ELSE Failed(o)
    ELSE IF Find(t, "/") # 0 THEN EnumCidr(t, o, Find(t, "/"))
    ELSE IF Find(t, "-") # 0 /\ Find(t, ",") = 0 THEN EnumRangeOrLater(t, o)
    ELSE EnumListOrSingle(t, o)

\* the loop the call is in, advanced by one step
LoopStep(l, cap, o) ==
    CASE l.kind = "cidr" -> CidrLoop(l, cap, o)
      [] l.kind = "last" -> LastOctetLoop(l, cap, o)
      [] l.kind = "third" -> ThirdOctetLoop(l, cap, o)
      [] l.kind = "list" -> ListLoop(l, cap, o)

\* ------------------------------------------------------- the tokens tried
\* A token is composed of numerals: a number printed in decimal, a letter, or
\* nothing.  tin records the composition: the form, the dotted numerals o and
\* the pieces r that follow (one numeral, or two for a range d1-d2).

Num(v) == [k |-> "n", v |-> v]
Junk == [k |-> "x", v |-> 0]
Empty == [k |-> "e", v |-> 0]

NumText(nm) ==
    IF nm.k = "x" THEN <<"x">> ELSE IF nm.k = "e" THEN <<>> ELSE FmtInt(nm.v)

RECURSIVE Joined(_, _)
Joined(texts, sep) ==
    IF texts = <<>> THEN <<>>
    ELSE IF Len(texts) = 1 THEN texts[1]
    ELSE texts[1] \o <<sep>> \o Joined(Tail(texts), sep)

PieceText(pc) ==
    IF Len(pc) = 1 THEN NumText(pc[1])
    ELSE NumText(pc[1]) \o <<"-">> \o NumText(pc[2])

Render(t) ==
    IF t.form = "v6" THEN <<":", ":">> \o NumText(t.o[1])
    ELSE Joined([j \in 1..Len(t.o) |-> NumText(t.o[j])], ".")
         \o (IF t.r = <<>> THEN <<>>
             ELSE <<IF t.form = "cidr" THEN "/" ELSE ".">>
                  \o Joined([j \in 1..Len(t.r) |-> PieceText(t.r[j])], ","))

Nums(vs) == [j \in 1..Len(vs) |-> Num(vs[j])]

CidrAddrs ==
    {Nums(<<10, 0, 0, 1>>), Nums(<<192, 168, 1, 0>>), Nums(<<0, 0, 0, 0>>),
     Nums(<<255, 255, 255, 255>>), Nums(<<255, 255, 255, 254>>),
     Nums(<<10, 20, 30, 77>>), Nums(<<127, 255, 255, 255>>),
     Nums(<<128, 0, 0, 0>>), Nums(<<256, 1, 1, 1>>), Nums(<<10, 0, 0>>),
     <<Num(10), Junk, Num(0), Num(1)>>}

PrefixNums ==
    {Num(v) : v \in {-1, 0, 1, 8, 15, 16, 17, 24, 28, 29, 30, 31, 32, 33}}
    \cup {Junk, Empty}

RangeBases == {Nums(<<10, 0, 0>>), Nums(<<300, 0, 0>>), <<Num(10), Junk, Num(0)>>}
RangeNums == {Num(v) : v \in {0, 1, 3, 10, 254, 255, 256, 400}} \cup {Junk, Empty}

ThirdBases == {Nums(<<10, 0>>), Nums(<<10, 256>>)}
ThirdNums == {Num(v) : v \in {0, 1, 2, 255, 256}} \cup {Junk}

ListPieces ==
    {<<Num(1)>>, <<Num(3)>>, <<Num(5), Num(6)>>, <<Num(6), Num(5)>>,
     <<Num(300)>>, <<Junk>>, <<Num(4), Num(400)>>, <<Empty>>}

Tok(form, o, r) == [form |-> form, o |-> o, r |-> r]

TokenInputs ==
    {Tok("v6", <<n>>, <<>>) : n \in {Num(1), Junk}}
    \cup {Tok("cidr", a, << <<p>> >>) : a \in CidrAddrs, p \in PrefixNums}
    \cup {Tok("last", b, << <<d1, d2>> >>) :
            b \in RangeBases, d1 \in RangeNums, d2 \in RangeNums}
    \cup {Tok("third", b, << <<c1, c2>> >>) :
            b \in ThirdBases, c1 \in ThirdNums, c2 \in ThirdNums}
    \cup {Tok("list", b, <<p1, p2>>) :
            b \in RangeBases, p1 \in ListPieces, p2 \in ListPieces}
    \cup {Tok("list", Nums(<<10, 0, 0>>), <<p1, p2, p3>>) :
            p1 \in ListPieces, p2 \in ListPieces, p3 \in ListPieces}
    \cup {Tok("single", a, <<>>) : a \in CidrAddrs \cup {<<Junk>>}}

\* the list at the call: empty as in main(), or holding an earlier result
PriorOut == {<<>>, <<FormatIPv4(10, 0, 0, 9)>>}

CompIdle ==
    /\ cin = <<>>
    /\ ips = <<>>
    /\ result = <<>>
    /\ cpc = "idle"

EnumIdle ==
    /\ tin = Tok("single", <<Junk>>, <<>>)
    /\ tok = <<>>
    /\ max_hosts = 0
    /\ out = <<>>
    /\ out0 = <<>>
    /\ ret = FALSE
    /\ epc = "idle"
    /\ lp = NoLoop

SchedIdle ==
    /\ all_count = 1
    /\ N = 1
    /\ per_target = 0
    /\ worker_count = 1
    /\ force = FALSE
    /\ concurrency = 1
    /\ force_ipv4 = FALSE
    /\ force_ipv6 = FALSE
    /\ tok_af = <<>>
    /\ family = <<"AF_INET">>
    /\ toks_left = 0
    /\ tokv = NoToken
    /\ stop_flag = FALSE
    /\ show_stats = FALSE
    /\ print_mtx = <<"free">>
    /\ rr_idx = 0
    /\ sent = [i \in Targets |-> 0]
    /\ recv = [i \in Targets |-> 0]
    /\ wpc = [w \in Workers |-> "unborn"]
    /\ widx = [w \in Workers |-> 0]
    /\ wt = [w \in Workers |-> 0]
    /\ mpc = "enumerate"
    /\ mi = 0
    /\ ts = 0
    /\ tr = 0
    /\ total_sent = 0
    /\ total_recv = 0
    /\ online_ips = <<>>
    /\ failed_ips = <<>>
    /\ lost = <<>>
    /\ exit_code = -1
    /\ ctrl_c = FALSE
    /\ admitted = [i \in Targets |-> 0]
    /\ pinged = [i \in Targets |-> 0]
    /\ lines = [i \in Targets |-> 0]
    /\ echoed = [i \in Targets |-> 0]
    /\ draw_log = <<>>
    /\ after_stop = [w \in Workers |-> 0]

Init == SchedInit /\ EnumIdle /\ CompIdle

Spec == Init /\ [][Next]_vars

\* the scheduler with a forced address family
InitForced == ForcedInit /\ EnumIdle /\ CompIdle

ForcedSpec == InitForced /\ [][Next]_vars

EnumInit ==
    /\ SchedIdle
    /\ CompIdle
    /\ tin \in TokenInputs
    /\ tok = Render(tin)
    /\ max_hosts \in (0..MaxCap) \cup {WideCap}
    /\ out0 \in PriorOut
    /\ out = out0
    /\ ret = FALSE
    /\ epc = "call"
    /\ lp = NoLoop

\* res is where the call stands next
EnumGoes(res) ==
    /\ out' = res.out
    /\ ret' = res.ok
    /\ epc' = res.pc
    /\ lp' = res.lp
    /\ UNCHANGED <<tin, tok, max_hosts, out0, schedVars, compVars>>

\* the call of enumerate_targets(tok, out, max_hosts)
Enumerate == epc = "call" /\ EnumGoes(EnumerateTargets(tok, out))

\* one step of its loop
EnumLoop == epc = "loop" /\ EnumGoes(LoopStep(lp, max_hosts, out))

EnumNext == Enumerate \/ EnumLoop

EnumSpec == EnumInit /\ [][EnumNext]_vars

\* =================================================== compress_ip_ranges

MaxIps == 4        \* lists of 0..MaxIps addresses

\* the text "(无)", as one character
NoneMarker == <<"(none)">>

\* ip_to_uint32(): 0 when InetPtonA fails
IpToUint32(ip) == LET a == InetPton4(ip) IN IF a.ok THEN a.ip ELSE <<0, 0>>

U32Lt(x, y) == x[1] < y[1] \/ (x[1] = y[1] /\ x[2] < y[2])

\* faulty variant: every IPv4 entry is kept
KeepsEntryAlways(val) == TRUE

\* if (val != 0) ipv4_list.push_back({val, ip});
KeepsEntry(val) == val # <<0, 0>>

\* the first loop: ipv4_list, pairs [first, second], and ipv6_list
RECURSIVE Ipv4List(_)
Ipv4List(list) ==
    IF list = <<>> THEN <<>>
    ELSE LET ip == list[1]
             val == IpToUint32(ip)
         IN (IF ~IsIPv6Address(ip) /\ KeepsEntry(val)
             THEN <<[first |-> val, second |-> ip]>> ELSE <<>>)
            \o Ipv4List(Tail(list))

RECURSIVE Ipv6List(_)
Ipv6List(list) ==
    IF list = <<>> THEN <<>>
    ELSE (IF IsIPv6Address(list[1]) THEN <<list[1]>> ELSE <<>>)
         \o Ipv6List(Tail(list))

\* std::sort by first.  Entries with equal values are equal as a whole when
\* the texts are in canonical form, so their order makes no difference.
RECURSIVE InsertByValue(_, _)
InsertByValue(sorted, e) ==
    IF sorted = <<>> THEN <<e>>
    ELSE IF U32Lt(e.first, sorted[1].first) THEN <<e>> \o sorted
    ELSE <<sorted[1]>> \o InsertByValue(Tail(sorted), e)

RECURSIVE SortByValue(_)
SortByValue(list) ==
    IF list = <<>> THEN <<>>
    ELSE InsertByValue(SortByValue(Tail(list)), list[1])

\* while (i + 1 < size && list[i + 1].first == list[i].first + 1) ++i;
\* indices are 1-based here
RECURSIVE RunEnd(_, _)
RunEnd(list, i) ==
    IF i + 1 <= Len(list) /\ list[i + 1].first = U32Inc(list[i].first)
    THEN RunEnd(list, i + 1)
    ELSE i

\* (start_ip & 0xFFFFFF00) == (end_ip & 0xFFFFFF00)
SameSubnet24(x, y) == x[1] = y[1] /\ x[2] \div 256 = y[2] \div 256

\* the text of the run range_start..i
RunText(list, range_start, i) ==
    IF i = range_start THEN list[i].second
    ELSE IF SameSubnet24(list[range_start].first, list[i].first)
    THEN list[range_start].second \o <<"-">> \o FmtNat(list[i].first[2] % 256)
    ELSE list[range_start].second \o <<"-">> \o list[i].second

\* if (!result.empty()) result += ", ";
WithSeparator(res) == IF res # <<>> THEN res \o <<",", " ">> ELSE res

\* while (i < ipv4_list.size()) { ... ++i; }
RECURSIVE CompressRuns(_, _, _)
CompressRuns(list, i, res) ==
    IF i > Len(list) THEN res
    ELSE LET e == RunEnd(list, i)
         IN CompressRuns(list, e + 1, WithSeparator(res) \o RunText(list, i, e))

\* for (const auto& ip : ipv6_list)
RECURSIVE AppendIpv6(_, _)
AppendIpv6(list, res) ==
    IF list = <<>> THEN res
    ELSE AppendIpv6(Tail(list), WithSeparator(res) \o list[1])

\* std::string compress_ip_ranges(ips)
CompressIpRanges(list) ==
    IF list = <<>> THEN NoneMarker
    ELSE LET res == AppendIpv6(Ipv6List(list),
                               CompressRuns(SortByValue(Ipv4List(list)), 1, <<>>))
         IN IF res = <<>> THEN NoneMarker ELSE res

\* the addresses the lists are drawn from: IPv4 octets or an IPv6 literal ::n
V4(a, b, c, d) == [v6 |-> FALSE, o |-> <<a, b, c, d>>]
V6(n) == [v6 |-> TRUE, o |-> <<n>>]
AddrText(e) ==
    IF e.v6 THEN <<":", ":">> \o FmtNat(e.o[1])
    ELSE FormatIPv4(e.o[1], e.o[2], e.o[3], e.o[4])

AddrPool ==
    {V4(0, 0, 0, 0), V4(0, 0, 0, 1), V4(10, 0, 0, 1), V4(10, 0, 0, 2),
     V4(10, 0, 0, 3), V4(10, 0, 0, 255), V4(10, 0, 1, 0),
     V4(255, 255, 255, 255), V6(1), V6(2)}

CompressInit ==
    /\ SchedIdle
    /\ EnumIdle
    /\ \E n \in 0..MaxIps : cin \in [1..n -> AddrPool]
    /\ ips = [k \in 1..Len(cin) |-> AddrText(cin[k])]
    /\ result = <<>>
    /\ cpc = "call"

\* one call of compress_ip_ranges(ips)
Compress ==
    /\ cpc = "call"
    /\ result' = CompressIpRanges(ips)
    /\ cpc' = "done"
    /\ UNCHANGED <<cin, ips, schedVars, enumVars>>

CompressNext == Compress

CompressSpec == CompressInit /\ [][CompressNext]_vars

\* Fair scheduling of the threads: a worker or the driver whose next step stays
\* possible eventually takes it.  std::mutex promises no more than that, so
\* the fairness is weak; the console events are the environment's and get none.
FairSpec ==
    Spec /\ (\A w \in Workers : WF_vars(WorkerStep(w))) /\ WF_vars(MainStep)

\* A worker blocked in the lock of print_mtx gets the mutex when the driver
\* releases it: the driver sleeps 200 ms after each release and takes the
\* mutex again only on a further CTRL_BREAK_EVENT, and the other workers sleep
\* between their probes.  The lock step of a worker is therefore taken if it
\* is possible again and again.
PrintLockStep(w) == PrintLock(w) /\ UNCHANGED <<enumVars, compVars>>

MutexFairSpec == FairSpec /\ \A w \in Workers : SF_vars(PrintLockStep(w))

\* The driver blocked in the lock of print_mtx gets the mutex when a worker
\* releases it: each worker sleeps (1 s after a probe, 10 ms after an
\* over-budget draw) before it can ask for the mutex again.
SnapLockStep == SnapLock /\ UNCHANGED <<enumVars, compVars>>

StatsFairSpec == FairSpec /\ SF_vars(SnapLockStep)

\* ------------------------------------------------------------ scheduler claims

Started == 1..worker_count
AllExited == worker_count > 0 /\ \A w \in Started : wpc[w] = "exited"
ReportPhase == {"report", "return", "done"}

\* workers between an over-budget fetch_add on target i and its fetch_sub
PendingReverts(i) == {w \in Started : wpc[w] = "revert" /\ widx[w] = i}

\* C1: in bounded mode (K > 0) without external cancellation, once every
\* worker has exited, sent[i] = K for every target i.
C1_SentEqualsK ==
    (per_target > 0 /\ ~ctrl_c /\ AllExited) =>
        \A i \in Targets : sent[i] = per_target

C1_Witness ==
    /\ per_target = MaxK /\ ~ctrl_c /\ AllExited
    /\ N = MaxN /\ worker_count = MaxConc /\ mpc = "done"

\* C2 as stated: in bounded mode sent[i] <= K in every reachable state.
C2_SentNeverAboveK ==
    per_target > 0 => \A i \in Targets : sent[i] <= per_target

\* C2 amended: in bounded mode sent[i] exceeds K by at most the number of
\* workers that are between their over-budget increment of sent[i] and its
\* revert; with no such worker, sent[i] <= K.
C2_SentAboveKOnlyPending ==
    per_target > 0 =>
        \A i \in Targets : sent[i] <= per_target + Cardinality(PendingReverts(i))

C2_Witness ==
    /\ per_target > 0
    /\ \E i \in Targets :
         /\ sent[i] = per_target + 1
         /\ Cardinality(PendingReverts(i)) = 1

\* C3: received[i] <= sent[i] for every target i in every reachable state,
\* bounded or unbounded mode, with or without cancellation.
C3_RecvAtMostSent == \A i \in Targets : recv[i] <= sent[i]

C3_Witness ==
    /\ ctrl_c
    /\ \E i \in Targets : recv[i] = sent[i] /\ recv[i] = MaxK
    /\ \E w \in Started : wpc[w] = "ping"

\* C4: whenever the stop signal is set, eventually every worker has exited
\* and the main driver has joined them and produced the final report.
C4_StopLeadsToReport == stop_flag ~> (AllExited /\ mpc = "done")

C4_Witness ==
    /\ ctrl_c /\ stop_flag /\ AllExited /\ mpc = "done"
    /\ worker_count = MaxConc
    /\ \E i \in Targets : sent[i] > 0

\* C5: the final report is generated only after every worker has exited, and
\* from the moment it starts reading the counters no sent or received counter
\* is modified again.
CountersKeptInReport == mpc \in ReportPhase => <<sent, recv>>' = <<sent, recv>>

C5_ReportAfterWorkers ==
    [](mpc \in ReportPhase => AllExited) /\ [][CountersKeptInReport]_vars

C5_Witness ==
    /\ mpc = "report" /\ mi = 1
    /\ worker_count = MaxConc
    /\ \E i \in Targets : recv[i] > 0

\* C6: a run that reaches the final report exits with code 0 iff at least one
\* target has received > 0 (iff the online list is non-empty), else with 1.
C6_ExitCode ==
    mpc = "done" =>
        /\ exit_code \in {0, 1}
        /\ exit_code = 0 <=> \E i \in Targets : recv[i] > 0
        /\ exit_code = 0 <=> online_ips # <<>>

C6_Witness ==
    /\ mpc = "done" /\ exit_code = 0
    /\ online_ips # <<>> /\ failed_ips # <<>>

C6_WitnessCancelled ==
    /\ mpc = "done" /\ exit_code = 1 /\ ctrl_c
    /\ \E i \in Targets : sent[i] > 0

\* ----------------------------------------------------------- enumerator claims
\* The expected addresses are computed on the four octets of tin, apart from
\* the 32-bit arithmetic of the enumerator.

IsNumIn(nm, lo, hi) == nm.k = "n" /\ nm.v \in lo..hi
OctetsOf(nums) == [j \in 1..Len(nums) |-> nums[j].v]
ValidOctets(nums) == \A j \in 1..Len(nums) : IsNumIn(nums[j], 0, 255)

ValidCidrInput ==
    /\ tin.form = "cidr" /\ Len(tin.o) = 4 /\ ValidOctets(tin.o)
    /\ IsNumIn(tin.r[1][1], 0, 32)
PrefixOf(t) == t.r[1][1].v

RefBits(p, j) == Max(0, Min(8, p - 8 * (j - 1)))
RefNetwork(o, p) == [j \in 1..4 |-> o[j] - (o[j] % (2 ^ (8 - RefBits(p, j))))]
RefBroadcast(o, p) ==
    [j \in 1..4 |-> RefNetwork(o, p)[j] + 2 ^ (8 - RefBits(p, j)) - 1]
RefAdd(o, k) ==
    LET d4 == o[4] + k
        d3 == o[3] + d4 \div 256
        d2 == o[2] + d3 \div 256
        d1 == o[1] + d2 \div 256
    IN <<d1 % 256, d2 % 256, d3 % 256, d4 % 256>>
RefText(o) == FormatIPv4(o[1], o[2], o[3], o[4])

\* the block of prefix p has 2^(32-p) - 2 hosts and the cap admits them all
\* (a cap of the model is far below the blocks of prefix 0 and 1)
BlockWithin(p, cap) == p >= 2 /\ 2 ^ (32 - p) - 2 <= cap

Appended == Len(out) - Len(out0)
AppendedIs(expected) == out = out0 \o expected

\* C7: for a valid CIDR token ip/prefix with 0 <= prefix < 31 and a cap at
\* least as large as the block, exactly the 2^(32-prefix) - 2 addresses
\* network+1 .. broadcast-1 are appended in ascending order, none of them the
\* network or the broadcast address.
C7_CidrHostRange ==
    (/\ epc = "done" /\ ValidCidrInput /\ PrefixOf(tin) < 31
     /\ BlockWithin(PrefixOf(tin), max_hosts)) =>
        LET p == PrefixOf(tin)
            net == RefNetwork(OctetsOf(tin.o), p)
            hosts == [k \in 1..(2 ^ (32 - p) - 2) |-> RefText(RefAdd(net, k))]
        IN /\ ret
           /\ Appended = 2 ^ (32 - p) - 2
           /\ AppendedIs(hosts)
           /\ \A k \in (Len(out0) + 1)..Len(out) :
                /\ out[k] # RefText(net)
                /\ out[k] # RefText(RefBroadcast(OctetsOf(tin.o), p))

C7_Witness ==
    /\ epc = "done" /\ ValidCidrInput /\ PrefixOf(tin) = 28
    /\ OctetsOf(tin.o) = <<10, 20, 30, 77>>
    /\ ret /\ out0 # <<>> /\ Appended = 14

\* C8 as stated: for every valid ip and cap >= 2, ip/31 appends exactly the
\* pair network, network+1 and ip/32 appends exactly ip.
C8_PairAndHost ==
    (epc = "done" /\ ValidCidrInput /\ max_hosts >= 2) =>
        LET net == RefNetwork(OctetsOf(tin.o), 31)
        IN /\ PrefixOf(tin) = 31 =>
                ret /\ AppendedIs(<<RefText(net), RefText(RefAdd(net, 1))>>)
           /\ PrefixOf(tin) = 32 => ret /\ AppendedIs(<<RefText(OctetsOf(tin.o))>>)

\* What holds of C8: the same, except for the pair at the top of the address
\* space, whose end is 0xFFFFFFFF.
C8_BelowTheTopPair ==
    \/ ValidCidrInput /\ RefNetwork(OctetsOf(tin.o), 31) = <<255, 255, 255, 254>>
    \/ C8_PairAndHost

\* C9 as stated: a call that fails has appended nothing.
C9_FailureAppendsNothing == (epc = "done" /\ ~ret) => out = out0

\* What holds of C9: the same for every token that is not a comma list.
C9_ExceptCommaList == (tin.form = "list") \/ C9_FailureAppendsNothing

\* the natural range of an accepted token: its first n addresses, and
\* whether it has more than n
RECURSIVE PieceRange(_, _)
PieceRange(b, pieces) ==
    IF pieces = <<>> THEN <<>>
    ELSE LET pc == pieces[1]
             lo == IF Len(pc) = 1 THEN pc[1].v ELSE Min(pc[1].v, pc[2].v)
             hi == IF Len(pc) = 1 THEN pc[1].v ELSE Max(pc[1].v, pc[2].v)
         IN (IF pc[1].k = "e" THEN <<>>
             ELSE [k \in 1..(hi - lo + 1) |-> FormatIPv4(b[1], b[2], b[3], lo + k - 1)])
            \o PieceRange(b, Tail(pieces))

NaturalExceeds(t, n) ==
    CASE t.form = "cidr" ->
           /\ PrefixOf(t) < 31
           /\ ~BlockWithin(PrefixOf(t), n)
      [] t.form = "last" ->
           Max(t.r[1][1].v, t.r[1][2].v) - Min(t.r[1][1].v, t.r[1][2].v) + 1 > n
      [] t.form = "third" ->
           254 * (Max(t.r[1][1].v, t.r[1][2].v)
                  - Min(t.r[1][1].v, t.r[1][2].v) + 1) > n
      [] t.form = "list" -> Len(PieceRange(OctetsOf(t.o), t.r)) > n
      [] OTHER -> 1 > n

NaturalFirst(t, n) ==
    CASE t.form = "cidr" ->
           IF PrefixOf(t) = 32 THEN <<RefText(OctetsOf(t.o))>>
           ELSE [k \in 1..n |->
                   RefText(RefAdd(RefNetwork(OctetsOf(t.o), PrefixOf(t)), k))]
      [] t.form = "last" ->
           [k \in 1..n |->
              FormatIPv4(t.o[1].v, t.o[2].v, t.o[3].v,
                         Min(t.r[1][1].v, t.r[1][2].v) + k - 1)]
      [] t.form = "third" ->
           [k \in 1..n |->
              FormatIPv4(t.o[1].v, t.o[2].v,
                         Min(t.r[1][1].v, t.r[1][2].v) + (k - 1) \div 254,
                         ((k - 1) % 254) + 1)]
      [] t.form = "list" -> SubSeq(PieceRange(OctetsOf(t.o), t.r), 1, n)
      [] OTHER -> <<Render(t)>>

\* C10 as stated: for every token form and every cap, a successful call
\* appends at most cap addresses, and exactly the first cap addresses of the
\* natural range when that is larger than cap.
C10_AtMostCap ==
    (epc = "done" /\ ret) =>
        /\ Appended <= max_hosts
        /\ NaturalExceeds(tin, max_hosts) => AppendedIs(NaturalFirst(tin, max_hosts))

\* What holds of C10: the same for every cap of at least one.
C10_PositiveCap == (max_hosts = 0) \/ C10_AtMostCap

\* the pieces d1-d2 of a range token, and its numeric bounds
RangeLo(t) == Min(t.r[1][1].v, t.r[1][2].v)
RangeHi(t) == Max(t.r[1][1].v, t.r[1][2].v)
ValidRangeInput(form, segments) ==
    /\ tin.form = form /\ Len(tin.o) = segments /\ ValidOctets(tin.o)
    /\ IsNumIn(tin.r[1][1], 0, 255) /\ IsNumIn(tin.r[1][2], 0, 255)

\* C11: for a token a.b.c.d1-d2 with every component in 0..255 and a cap of
\* at least |d2-d1|+1, the call succeeds and appends exactly
\* a.b.c.min(d1,d2) .. a.b.c.max(d1,d2) in ascending order.
C11_LastOctetRange ==
    (/\ epc = "done" /\ ValidRangeInput("last", 3)
     /\ RangeHi(tin) - RangeLo(tin) + 1 <= max_hosts) =>
        /\ ret
        /\ Appended = RangeHi(tin) - RangeLo(tin) + 1
        /\ AppendedIs([k \in 1..(RangeHi(tin) - RangeLo(tin) + 1) |->
                         FormatIPv4(tin.o[1].v, tin.o[2].v, tin.o[3].v,
                                    RangeLo(tin) + k - 1)])

\* the reversed range 10.0.0.255-0 under the wide cap: all 256 addresses
C11_Witness ==
    /\ epc = "done" /\ ValidRangeInput("last", 3)
    /\ tin.r[1][1].v = 255 /\ tin.r[1][2].v = 0
    /\ ret /\ Appended = 256 /\ out0 # <<>>
    /\ out[Len(out0) + 1] = FormatIPv4(10, 0, 0, 0)
    /\ out[Len(out)] = FormatIPv4(10, 0, 0, 255)

\* the fourth octet of a dotted-decimal text
LastOctetOf(text) == DecValue(Fields(text, ".")[4])

\* C12: for a token a.b.c1-c2 with every component in 0..255 and a cap of at
\* least 254*(|c2-c1|+1), the call succeeds and appends, for each third octet
\* from min(c1,c2) to max(c1,c2) in ascending order, the fourth octets 1..254
\* in ascending order, and never 0 or 255.
C12_ThirdOctetRange ==
    (/\ epc = "done" /\ ValidRangeInput("third", 2)
     /\ 254 * (RangeHi(tin) - RangeLo(tin) + 1) <= max_hosts) =>
        /\ ret
        /\ Appended = 254 * (RangeHi(tin) - RangeLo(tin) + 1)
        /\ \A k \in 1..Appended :
             out[Len(out0) + k] =
                 FormatIPv4(tin.o[1].v, tin.o[2].v,
                            RangeLo(tin) + (k - 1) \div 254, ((k - 1) % 254) + 1)
        /\ \A k \in (Len(out0) + 1)..Len(out) : LastOctetOf(out[k]) \in 1..254

\* 10.0.2-1 under the wide cap: 508 addresses, 10.0.1.1 first
C12_Witness ==
    /\ epc = "done" /\ ValidRangeInput("third", 2)
    /\ tin.r[1][1].v = 2 /\ tin.r[1][2].v = 1
    /\ ret /\ Appended = 508
    /\ out[Len(out0) + 1] = FormatIPv4(10, 0, 1, 1)
    /\ out[Len(out0) + 255] = FormatIPv4(10, 0, 2, 1)
    /\ out[Len(out)] = FormatIPv4(10, 0, 2, 254)

\* a piece of a comma list: a literal octet or a sub-range, or nothing
ValidPiece(pc) ==
    \/ pc = <<Empty>>
    \/ \A j \in 1..Len(pc) : IsNumIn(pc[j], 0, 255)
ValidListInput ==
    /\ tin.form = "list" /\ Len(tin.o) = 3 /\ ValidOctets(tin.o)
    /\ \A j \in 1..Len(tin.r) : ValidPiece(tin.r[j])

\* C13: for a token a.b.c.p1,p2,... of valid pieces the call succeeds and
\* appends the expansions of the pieces (a literal: one address; d1-d2: its
\* ascending run) concatenated in piece order, neither sorted nor
\* deduplicated, cut after cap addresses in all.
C13_CommaList ==
    (epc = "done" /\ ValidListInput) =>
        LET whole == PieceRange(OctetsOf(tin.o), tin.r)
        IN /\ ret
           /\ Appended <= max_hosts
           /\ AppendedIs(SubSeq(whole, 1, Min(Len(whole), max_hosts)))

\* 10.0.0.5-6,1,6-5 gives .5 .6 .1 .5 .6
C13_Witness ==
    /\ epc = "done" /\ ValidListInput
    /\ tin.r = << <<Num(5), Num(6)>>, <<Num(1)>>, <<Num(6), Num(5)>> >>
    /\ ret /\ out0 # <<>>
    /\ AppendedIs(<<FormatIPv4(10, 0, 0, 5), FormatIPv4(10, 0, 0, 6),
                    FormatIPv4(10, 0, 0, 1), FormatIPv4(10, 0, 0, 5),
                    FormatIPv4(10, 0, 0, 6)>>)

\* the reference algorithm of the range compressor, on octets
RefLess(x, y) ==
    \E j \in 1..4 : x[j] < y[j] /\ \A h \in 1..(j - 1) : x[h] = y[h]
RECURSIVE RefOctets(_)
RefOctets(c) ==
    IF c = <<>> THEN <<>>
    ELSE (IF c[1].v6 THEN <<>> ELSE <<c[1].o>>) \o RefOctets(Tail(c))
RECURSIVE RefLiterals(_)
RefLiterals(c) ==
    IF c = <<>> THEN <<>>
    ELSE (IF c[1].v6 THEN <<AddrText(c[1])>> ELSE <<>>) \o RefLiterals(Tail(c))
RefWithout(seq, k) == SubSeq(seq, 1, k - 1) \o SubSeq(seq, k + 1, Len(seq))
RECURSIVE RefSorted(_)
RefSorted(seq) ==
    IF seq = <<>> THEN <<>>
    ELSE LET k == CHOOSE j \in 1..Len(seq) :
                      \A h \in 1..Len(seq) : ~RefLess(seq[h], seq[j])
         IN <<seq[k]>> \o RefSorted(RefWithout(seq, k))
\* seq[j+1] follows seq[j]; the last index of the maximal run that starts at j
RefConsecutive(seq, j) == seq[j + 1] = RefAdd(seq[j], 1) /\ RefLess(seq[j], seq[j + 1])
RefRunLast(seq, j) ==
    CHOOSE e \in j..Len(seq) :
        /\ \A h \in j..(e - 1) : RefConsecutive(seq, h)
        /\ e = Len(seq) \/ ~RefConsecutive(seq, e)
RefRunText(first, last) ==
    IF first = last THEN RefText(first)
    ELSE IF SubSeq(first, 1, 3) = SubSeq(last, 1, 3)
    THEN RefText(first) \o <<"-">> \o FmtNat(last[4])
    ELSE RefText(first) \o <<"-">> \o RefText(last)
RECURSIVE RefRunTexts(_, _)
RefRunTexts(seq, j) ==
    IF j > Len(seq) THEN <<>>
    ELSE <<RefRunText(seq[j], seq[RefRunLast(seq, j)])>>
         \o RefRunTexts(seq, RefRunLast(seq, j) + 1)
RECURSIVE RefJoin(_)
RefJoin(texts) ==
    IF texts = <<>> THEN <<>>
    ELSE IF Len(texts) = 1 THEN texts[1]
    ELSE texts[1] \o <<",", " ">> \o RefJoin(Tail(texts))
RefCompress(c) ==
    IF c = <<>> THEN NoneMarker
    ELSE RefJoin(RefRunTexts(RefSorted(RefOctets(c)), 1) \o RefLiterals(c))

HasZeroAddress == \E k \in 1..Len(cin) : cin[k] = V4(0, 0, 0, 0)

\* C14 as stated: on every list, compress_ip_ranges returns what the
\* reference algorithm returns: the none marker for the empty list, otherwise
\* the maximal runs of consecutive IPv4 values in ascending order, a single
\* value as its literal, a run as first-lastOctet within one /24 and as
\* first-last otherwise, joined with ", ", followed by the IPv6 literals in
\* input order.
C14_CompressAgrees == cpc = "done" => result = RefCompress(cin)

\* What holds of C14: the same for every list without the address 0.0.0.0.
C14_WithoutZeroAddress == HasZeroAddress \/ C14_CompressAgrees

\* 10.0.0.255, ::1, 10.0.0.2, 10.0.1.0 compresses to three pieces
C14_Witness ==
    /\ cpc = "done" /\ ~HasZeroAddress /\ Len(cin) = 4
    /\ cin[1] = V4(10, 0, 0, 255) /\ cin[2] = V6(1)
    /\ cin[3] = V4(10, 0, 0, 2) /\ cin[4] = V4(10, 0, 1, 0)
    /\ result = FormatIPv4(10, 0, 0, 2) \o <<",", " ">>
                \o FormatIPv4(10, 0, 0, 255) \o <<"-">> \o FormatIPv4(10, 0, 1, 0)
                \o <<",", " ", ":", ":", "1">>

\* ------------------------------------------------- scheduler claims, continued

NoWorkerLaunched == \A w \in Workers : wpc[w] = "unborn"
NoCounterTouched ==
    /\ rr_idx = 0 /\ draw_log = <<>>
    /\ \A i \in DOMAIN sent : sent[i] = 0
    /\ \A i \in DOMAIN recv : recv[i] = 0

\* the loop over the tokens is over and the list is empty or above the limit
BadTargetList ==
    /\ mpc # "tokens"
    /\ all_count = 0 \/ (~force /\ all_count > MaxHostsDefault)

\* C15: a token that fails enumeration, a host name that resolves to no
\* address, an empty target list and a list above the default limit without
\* --force each end the process with exit code 2 before any worker is
\* launched and with every counter untouched, also when earlier tokens were
\* enumerated.
C15_FatalErrorsExitWith2 ==
    /\ (FatalToken(tokv) \/ BadTargetList) => mpc = "rejected"
    /\ mpc = "rejected" =>
         exit_code = 2 /\ NoWorkerLaunched /\ NoCounterTouched

\* the second token fails after the first gave an address
C15_Witness ==
    /\ mpc = "rejected" /\ exit_code = 2
    /\ FatalToken(tokv) /\ all_count > 0 /\ toks_left = 1

C15_WitnessLimit ==
    /\ mpc = "rejected" /\ exit_code = 2
    /\ ~force /\ all_count > MaxHostsDefault /\ ~FatalToken(tokv)

\* workers with a draw of target i in hand at one of the positions pcs
Holding(i, pcs) == {w \in Started : wpc[w] \in pcs /\ widx[w] = i}

\* C16: in bounded mode, for every target i and under every interleaving, at
\* most K draws pass the admission test, so at most K echo calls are made and
\* at most K outcome lines written for i; sent[i] is the number of admitted
\* draws plus the over-budget increments not yet reverted.
C16_AdmittedAtMostK ==
    (per_target > 0 /\ worker_count > 0) =>
        \A i \in Targets :
            /\ admitted[i] <= per_target
            /\ lines[i] <= pinged[i] /\ pinged[i] <= admitted[i]
            /\ sent[i] = admitted[i] + Cardinality(PendingReverts(i))

\* both workers drew the target with one slot left: one is admitted, the
\* other is over budget
C16_Witness ==
    /\ per_target = MaxK /\ worker_count = MaxConc
    /\ \E i \in Targets :
         /\ admitted[i] = per_target
         /\ Cardinality(Holding(i, {"ping"})) = 1
         /\ Cardinality(PendingReverts(i)) = 1

\* C17: in bounded mode, under fair scheduling (of the threads and of the
\* mutex) and with every echo call returning, a run that is not cancelled
\* from outside ends: a worker sets the stop flag and all workers exit.
C17_BoundedRunEnds ==
    (per_target > 0 /\ worker_count > 0) ~> (ctrl_c \/ (stop_flag /\ AllExited))

C17_Witness ==
    /\ per_target = MaxK /\ N = MaxN /\ worker_count = MaxConc
    /\ ~ctrl_c /\ stop_flag /\ AllExited /\ mpc = "join"
    /\ \A i \in Targets : lines[i] = MaxK

\* a worker with a probe in flight goes on to count and print it
ProbeCompleted ==
    \A w \in Workers :
        /\ wpc[w] = "ping" => wpc'[w] \in {"ping", "print"}
        /\ wpc[w] = "print" => wpc'[w] \in {"print", "printing"}
        /\ wpc[w] = "printing" => wpc'[w] \in {"printing", "scan_done", "top"}
        /\ wpc[w] \in {"ping", "print", "printing"} =>
             admitted'[widx[w]] >= admitted[widx[w]]

\* C18: once the stop flag is set, a worker makes at most one more draw
\* before it exits, and a probe in flight is completed and counted, not
\* abandoned.
C18_AtMostOneDrawAfterStop ==
    [](\A w \in Workers : after_stop[w] <= 1) /\ [][ProbeCompleted]_vars

\* a worker drew after the stop flag was set, completed the probe and exited
C18_Witness ==
    /\ stop_flag
    /\ \E w \in Started : after_stop[w] = 1 /\ wpc[w] = "exited"
    /\ \E i \in Targets : lines[i] > 0 /\ lines[i] = sent[i]

\* C19: whenever all workers have exited, by completion or by cancellation,
\* every over-budget increment is reverted: sent[i] is the number of admitted
\* draws of i, each of which has written one outcome line, and in bounded
\* mode sent[i] <= K.
C19_SentIsAdmittedAtRest ==
    AllExited =>
        \A i \in Targets :
            /\ sent[i] = admitted[i]
            /\ lines[i] = admitted[i]
            /\ per_target > 0 => sent[i] <= per_target

\* a cancelled run at rest, short of K for some target
C19_Witness ==
    /\ AllExited /\ ctrl_c /\ per_target = MaxK /\ worker_count = MaxConc
    /\ \E i \in Targets : sent[i] > 0 /\ sent[i] < per_target
    /\ \E w \in Started : after_stop[w] = 1

DrawnCount(i) == Cardinality({j \in 1..Len(draw_log) : draw_log[j][2] = i})

\* C20: the draws take the values 0, 1, 2, ... of one counter, no value
\* twice; the j-th draw is of target j mod N; after m draws every target has
\* been drawn floor(m/N) or ceil(m/N) times.
C20_RoundRobinDraws ==
    LET m == Len(draw_log)
    IN (worker_count > 0 /\ (m > 0 \/ rr_idx < N * MaxRounds)) =>
        /\ rr_idx = m
        /\ \A j \in 1..m : draw_log[j] = <<j - 1, (j - 1) % N>>
        /\ \A i \in Targets : DrawnCount(i) \in {m \div N, (m + N - 1) \div N}

\* three draws on two targets by two workers
C20_Witness ==
    /\ N = MaxN /\ worker_count = MaxConc /\ Len(draw_log) = N + 1
    /\ DrawnCount(0) = 2 /\ DrawnCount(1) = 1
    /\ \A w \in Started : wpc[w] = "admit"

\* ------------------------------------------------------ forced family claims

\* target i is of the family that -4 or -6 excludes
OtherFamily(i) ==
    \/ force_ipv4 /\ FamilyOf(i) = "AF_INET6"
    \/ force_ipv6 /\ FamilyOf(i) = "AF_INET"

InList(list, i) == \E j \in 1..Len(list) : list[j] = i

\* C21: with a family forced, a target of the other family is never passed to
\* ping_ipv4 or ping_ipv6; each admitted draw of it is counted in sent[i]
\* and goes through the dispatch, received[i] stays 0, and the final report
\* lists the target as failed.
C21_OtherFamilyNeverProbed ==
    \A i \in Targets :
        OtherFamily(i) =>
            /\ echoed[i] = 0
            /\ recv[i] = 0
            /\ sent[i] = admitted[i] + Cardinality(PendingReverts(i))
            /\ pinged[i] <= admitted[i]
            /\ mpc = "done" => InList(failed_ips, i) /\ ~InList(online_ips, i)

\* -6 on a list of an IPv4 and an IPv6 target: the one drawn K times and
\* failed, the other online
C21_Witness ==
    /\ mpc = "done" /\ N = MaxN /\ per_target = MaxK /\ ~ctrl_c
    /\ \E i, j \in Targets :
         /\ OtherFamily(i) /\ ~OtherFamily(j)
         /\ sent[i] = MaxK /\ pinged[i] = MaxK /\ lines[i] = MaxK
         /\ InList(failed_ips, i) /\ InList(online_ips, j)

\* ------------------------------------------------------ unbounded mode claims

\* workers that have drawn target i and not yet counted the draw
Drawing(i) == {w \in Started : wpc[w] = "admit" /\ widx[w] = i}

\* in unbounded mode a worker past its draw counts it in sent and goes on to
\* the echo call, and no counter goes down
UnboundedStep ==
    per_target = 0 =>
        /\ \A i \in Targets : sent'[i] >= sent[i]
        /\ \A w \in Started :
             (wpc[w] = "admit" /\ wpc'[w] # "admit") =>
                 /\ wpc'[w] = "ping"
                 /\ sent'[widx[w]] = sent[widx[w]] + 1
        /\ stop_flag' # stop_flag => ctrl_c'

\* C22: in unbounded mode (K = 0) every draw adds exactly one to sent[i] and
\* goes on to a probe, no sent counter is decremented, and the stop flag is
\* set by the console handler alone: no worker reverts, scans or stores it.
C22_UnboundedCountsEveryDraw ==
    /\ [](per_target = 0 =>
            /\ \A w \in Workers :
                 wpc[w] \notin {"revert", "scan_retry", "scan_done", "set_stop"}
            /\ stop_flag => ctrl_c
            /\ \A i \in Targets :
                 /\ sent[i] = admitted[i]
                 /\ Len(draw_log) = rr_idx =>
                        DrawnCount(i) = sent[i] + Cardinality(Drawing(i)))
    /\ [][UnboundedStep]_vars

\* an unbounded run on two targets, cancelled after every counter reached
\* MaxSent, reported
C22_Witness ==
    /\ per_target = 0 /\ ctrl_c /\ AllExited /\ mpc = "done"
    /\ N = MaxN /\ worker_count = MaxConc
    /\ \A i \in Targets : sent[i] >= MaxSent

\* ------------------------------------------------------------ launch claims

\* main() is past the checks of the target list
Scheduling == mpc \notin {"tokens", "rejected"}

\* the threads created so far
Launched == {w \in Workers : wpc[w] # "unborn"}

\* positions at which the driver indexes stats or all_targets with mi
MainIndexes == {"snap_sent", "snap_recv", "report"}

\* C23: the scheduler starts only on a list of N >= 1 targets; it launches
\* exactly W = min(max(1, concurrency), N) workers, so 1 <= W <= N; every
\* index the workers and the driver use on all_targets and stats is in 0..N-1.
C23_WorkersAndIndexes ==
    /\ ~Scheduling => Launched = {} /\ N = 0 /\ worker_count = 0
    /\ Scheduling =>
          /\ N >= 1 /\ N = all_count /\ N = Len(family)
          /\ \/ concurrency < 1 /\ worker_count = 1
             \/ concurrency \in 1..N /\ worker_count = concurrency
             \/ concurrency > N /\ worker_count = N
          /\ 1 <= worker_count /\ worker_count <= N
          /\ Launched \subseteq Started
          /\ mpc # "spawn" => Launched = Started
          /\ \A w \in Launched : widx[w] \in Targets /\ wt[w] \in Targets
          /\ DOMAIN sent = Targets /\ DOMAIN recv = Targets
          /\ mpc \in MainIndexes => mi \in Targets

\* --concurrency above the number of targets: one worker on one target, at
\* its echo call
C23_Witness ==
    /\ Scheduling /\ N = 1 /\ concurrency = MaxConc /\ concurrency > N
    /\ worker_count = 1 /\ Launched = {1}
    /\ wpc[1] = "ping" /\ mpc = "wait"

\* as many workers as targets
C23_WitnessFull ==
    /\ Scheduling /\ N = MaxN /\ worker_count = MaxConc /\ Launched = Started
    /\ \E w \in Started : widx[w] = N - 1 /\ wpc[w] = "ping"

\* ------------------------------------------------------ output section claims

\* positions of the driver inside its lock_guard block
SnapSection == {"snap_sent", "snap_recv", "snap_print"}

\* the threads inside the console output critical section
InSection ==
    {<<"worker", w>> : w \in {v \in Workers : wpc[v] = "printing"}}
    \cup (IF mpc \in SnapSection THEN {<<"main">>} ELSE {})

\* the thread that holds print_mtx can take its next step
HolderCanStep ==
    /\ print_mtx = <<"main">> => ENABLED (SnapSent \/ SnapRecv \/ SnapPrint)
    /\ \A w \in Workers : print_mtx = <<"worker", w>> => ENABLED PrintUnlock(w)

\* before main() returns, some thread of the process can take a step
SomeThreadCanStep ==
    (Scheduling /\ mpc # "done") =>
        ENABLED (MainStep \/ \E w \in Workers : WorkerStep(w))

\* C24: at most one thread, worker or driver, is inside the console output
\* section, and it is the holder of print_mtx; no worker holds print_mtx
\* while its echo call is in flight; the holder of the mutex is never
\* blocked, and no state before the return of main() is a deadlock.
C24_OutputSectionExclusive ==
    /\ Cardinality(InSection) <= 1
    /\ InSection = (IF print_mtx = <<"free">> THEN {} ELSE {print_mtx})
    /\ \A w \in Workers : wpc[w] = "ping" => print_mtx # <<"worker", w>>
    /\ HolderCanStep
    /\ SomeThreadCanStep

\* the driver prints a snapshot while one worker waits for the mutex and the
\* echo call of the other is in flight
C24_Witness ==
    /\ mpc = "snap_recv" /\ print_mtx = <<"main">>
    /\ \E w, v \in Started : wpc[w] = "print" /\ wpc[v] = "ping"

\* ------------------------------------------------- intermediate statistics

\* show_stats goes from true to false only where the driver ends a snapshot
ResetBySnapshot ==
    (show_stats /\ ~show_stats') => (mpc = "snap_print" /\ mpc' = "wait")

\* the driver leaves a snapshot with show_stats reset
SnapshotResets == (mpc = "snap_print" /\ mpc' # "snap_print") => ~show_stats'

\* C25 as stated: whenever show_stats is set, the driver eventually prints a
\* snapshot and resets the signal, so the signal is not set when the run ends.
C25_SnapshotAlways ==
    /\ show_stats ~> (mpc = "snap_print")
    /\ show_stats ~> ~show_stats
    /\ [](mpc = "done" => ~show_stats)

\* C25 amended: whenever show_stats is set, the driver eventually prints a
\* snapshot and resets the signal unless the stop flag is set first; the
\* signal is reset by the end of a snapshot and by nothing else.  (A request
\* pending when the driver sees the stop flag is dropped and the signal stays
\* set to the end of the run.)
C25_SnapshotUnlessStopped ==
    /\ show_stats ~> (mpc = "snap_print" \/ stop_flag)
    /\ show_stats ~> (~show_stats \/ stop_flag)
    /\ [][ResetBySnapshot /\ SnapshotResets]_vars

\* the driver at the output of a snapshot of a run that is not stopped
C25_Witness ==
    /\ mpc = "snap_print" /\ show_stats /\ ~stop_flag
    /\ ts > 0 /\ N = MaxN

\* C26: every intermediate statistics snapshot printed while the workers run
\* reports a total received that does not exceed its total sent.
C26_SnapshotRecvAtMostSent == mpc = "snap_print" => tr <= ts

\* ---------------------------------------------------------- run state claims

\* RunState: Running (0) until the stop flag is set, Stopping (1) until every
\* worker has exited, then Stopped (2)
RunRank == IF ~stop_flag THEN 0 ELSE IF AllExited THEN 2 ELSE 1

RunStateStep ==
    /\ stop_flag => stop_flag'
    /\ RunRank' >= RunRank
    /\ RunRank = 2 => wpc' = wpc

\* C27: the stop flag, once true, is never reset, by a worker, the driver or
\* the console handler; the run state moves forward only, Running to
\* Stopping to Stopped; once Stopped no worker is started and none goes back
\* into its loop.
C27_StopIsMonotonic == [][RunStateStep]_vars

\* Stopping by completion: one worker has stored the flag and exited, the
\* echo call of the other is still in flight
C27_Witness ==
    /\ stop_flag /\ ~ctrl_c /\ RunRank = 1 /\ worker_count = MaxConc
    /\ \E w, v \in Started : wpc[w] = "exited" /\ wpc[v] = "ping"

\* Stopped, the driver at its final report, CTRL_C after that
C27_WitnessStopped ==
    /\ RunRank = 2 /\ ctrl_c /\ mpc = "report" /\ show_stats

\* ------------------------------------------------ compressor claims, continued
\* The notation returned is read back: the items between ", ", an IPv4 item
\* as the interval of values it stands for (a literal, first-lastOctet or
\* first-last), an IPv6 item as its text.

StripSpace(t) == IF t # <<>> /\ t[1] = " " THEN Tail(t) ELSE t

ItemTexts(res) ==
    IF res = NoneMarker THEN <<>>
    ELSE LET f == Fields(res, ",") IN [j \in 1..Len(f) |-> StripSpace(f[j])]

ReadItem(t) ==
    IF IsIPv6Address(t) THEN [v6 |-> TRUE, text |-> t, lo |-> <<0, 0>>, hi |-> <<0, 0>>]
    ELSE LET d == Find(t, "-")
             first == IF d = 0 THEN t ELSE SubSeq(t, 1, d - 1)
             rest == IF d = 0 THEN t ELSE SubSeq(t, d + 1, Len(t))
             lo == InetPton4(first).ip
         IN [v6 |-> FALSE, text |-> t, lo |-> lo,
             hi |-> IF Find(rest, ".") # 0 THEN InetPton4(rest).ip
                    ELSE <<lo[1], (lo[2] \div 256) * 256 + DecValue(rest)>>]

ReadItems(res) == LET t == ItemTexts(res) IN [j \in 1..Len(t) |-> ReadItem(t[j])]

\* the address e of the input is in the notation
Represented(e, items) ==
    \E j \in 1..Len(items) :
        IF e.v6 THEN items[j].v6 /\ items[j].text = AddrText(e)
        ELSE LET v == U32FromOctets(e.o[1], e.o[2], e.o[3], e.o[4])
             IN ~items[j].v6 /\ U32Le(items[j].lo, v) /\ U32Le(v, items[j].hi)

\* C28: for every non-empty list of valid addresses (IPv4 from 0.0.0.0 to
\* 255.255.255.255, or IPv6) every address of the list is represented in the
\* result of compress_ip_ranges, as a literal or inside a run; a non-empty
\* list never gives the none marker.
C28_EveryAddressReported ==
    (cpc = "done" /\ cin # <<>>) =>
        /\ result # NoneMarker
        /\ \A k \in 1..Len(cin) : Represented(cin[k], ReadItems(result))

\* What holds of C28: the same for every list without the address 0.0.0.0.
C28_ReportedWithoutZeroAddress == HasZeroAddress \/ C28_EveryAddressReported

\* item x ends before item y starts, with a value between them
Apart(x, y) == U32Lt(x.hi, y.lo) /\ U32Inc(x.hi) # y.lo

Ipv4Items(res) == SelectSeq(ReadItems(res), LAMBDA it : ~it.v6)

HasRepeats == \E j, k \in 1..Len(cin) : j < k /\ cin[j] = cin[k] /\ ~cin[j].v6

\* C29: for any list, one with repeated addresses included, the IPv4 items
\* of the result are maximal and pairwise disjoint: no two of them overlap or
\* are adjacent, so no address is covered twice.
C29_ItemsDisjointMaximal ==
    cpc = "done" =>
        LET items == Ipv4Items(result)
        IN \A j, k \in 1..Len(items) :
               j < k => /\ U32Le(items[j].lo, items[j].hi)
                        /\ Apart(items[j], items[k])

\* What holds of C29: the same for every list without a repeated address.
C29_DisjointWithoutRepeats == HasRepeats \/ C29_ItemsDisjointMaximal

\* ------------------------------------------------------- final report claims

Occurrences(list, i) == Cardinality({j \in 1..Len(list) : list[j] = i})

\* the targets the final loop has classified so far
Classified ==
    IF mpc = "report" THEN 0..(mi - 1)
    ELSE IF mpc \in {"return", "done"} THEN Targets ELSE {}

\* C30: in the final report each target is classified exactly once, online
\* if and only if its received counter is above 0 and failed otherwise; the
\* two lists are disjoint and their sizes sum to N; the loss printed for a
\* target is sent - received and never negative.
C30_ClassifiedExactlyOnce ==
    /\ \A i \in Targets :
          /\ Occurrences(online_ips, i) + Occurrences(failed_ips, i)
                 = (IF i \in Classified THEN 1 ELSE 0)
          /\ i \in Classified =>
                /\ InList(online_ips, i) <=> recv[i] > 0
                /\ InList(failed_ips, i) <=> recv[i] = 0
                /\ lost[i + 1] >= 0
                /\ lost[i + 1] + recv[i] = sent[i]
    /\ Len(online_ips) + Len(failed_ips) = Cardinality(Classified)
    /\ Len(lost) = Cardinality(Classified)
    /\ mpc \in {"return", "done"} => Len(online_ips) + Len(failed_ips) = N

\* two targets reported, one online with a reply lost, one failed
C30_Witness ==
    /\ mpc = "done" /\ N = MaxN
    /\ Len(online_ips) = 1 /\ Len(failed_ips) = 1
    /\ \E i \in Targets : recv[i] > 0 /\ lost[i + 1] > 0

====
